---------------------------- MODULE Spec2Model ----------------------------
(***************************************************************************)
(* A model of FileX (Muxite/filex): the indexing controller of the web     *)
(* application, the dual vector index of the SearchManager and the         *)
(* per-file indexing pipeline of the RepositoryManager.                    *)
(*                                                                         *)
(* Nine specifications share this module:                                  *)
(*   SpecTasks      the task table of web_app.py and its pool workers      *)
(*   SpecTasksLive  SpecTasks with a pool that keeps running its closures  *)
(*   SpecIndex      SearchManager.add_file_embeddings / remove / search    *)
(*   SpecRepo       RepositoryManager.index_file over catalog, blobs, index*)
(*   SpecRepoFault  SpecRepo with a blob store that may refuse a write     *)
(*   SpecWalk       RepositoryManager.index_directory over the work tree   *)
(*   SpecFlush      the file writes of a save, the file reads of a load    *)
(*   SpecChunk      the two chunkers of chunkers.py run on a text          *)
(*   SpecHandoff    requests for one repository, each with its own manager *)
(***************************************************************************)
EXTENDS Integers, Sequences, FiniteSets, TLC

VARIABLES
    \* ---- indexing controller (web_app.py) ----
    has_filex,       \* the directories named .filex and their subdirectories
    indexing_tasks,  \* state.indexing_tasks: repo_id -> task record
    jobs,            \* index_task closures handed to state.executor
    response,        \* the answer to the request handled by the last step, if it was one
    \* ---- vector index (search_manager.py) ----
    sm,              \* the SearchManager: both (matrix, metadata) pairs in memory
    index_dir,       \* the four files the SearchManager keeps under .filex/index
    call,            \* the last call made on the SearchManager and how it ended
    \* ---- per-file indexing (repo_manager.py, index_manager.py) ----
    files,           \* the work tree: path -> text and mtime of each regular file
    catalog,         \* the file_index table: file_path -> row
    blobs,           \* the embeddings and metadata blobs of the StorageManager
    now,             \* the clock datetime.now() reads
    result,          \* how the last index_file call ended
    stats,           \* what the last index_directory call was given and returned
    \* ---- saving and loading the vector index file by file ----
    queue,           \* the states of the indexer's SearchManager still to be saved
    wpc,             \* how far the save at the head of the queue has come
    torn,            \* the index files that are opened for writing and not yet written
    reader,          \* a SearchManager under construction in a search request
    stops,           \* how often the process has stopped during a save
    \* ---- the chunkers on their own (chunkers.py) ----
    input_text,      \* the text handed to a chunker
    chunked,         \* the chunker last run on the text and what it returned
    \* ---- requests for one repository and their managers (web_app.py) ----
    requests         \* per request: where it stands and the SearchManager it built

taskVars == <<has_filex, indexing_tasks, jobs, response>>
indexVars == <<sm, index_dir, call>>
repoVars == <<files, catalog, blobs, now, result, stats>>
flushVars == <<queue, wpc, torn, reader, stops>>
chunkVars == <<input_text, chunked>>
handoffVars == <<requests>>

vars == <<taskVars, indexVars, repoVars, flushVars, chunkVars, handoffVars>>

(***************************************************************************)
(* Bounds of the model.                                                    *)
(***************************************************************************)
MaxJobs == 3        \* closures the executor holds at once (queued or running)
MaxFiles == 1       \* files enumerated by one directory run
MaxChunks == 2      \* chunks (and matrix rows) passed in one add_file_embeddings call
MaxWidth == 2       \* embedding dimensions 1..MaxWidth
MaxTopK == 3        \* top_k ranges over 0..MaxTopK
MaxClock == 3       \* catalog writes made in one behaviour
MaxMTime == 2       \* modification times 1..MaxMTime
MaxStops == 1       \* stops of the process during a save

(***************************************************************************)
(* Paths.  A path is the sequence of its components; "." and ".." are      *)
(* components a request may carry and Path.resolve() removes.              *)
(***************************************************************************)
REPO_DIR_NAME == ".filex"

RECURSIVE ResolveFrom(_, _)
ResolveFrom(done, rest) ==
    IF rest = <<>> THEN done
    ELSE LET c == Head(rest) IN
         IF c = "." THEN ResolveFrom(done, Tail(rest))
         ELSE IF c = ".."
              THEN ResolveFrom(IF done = <<>> THEN <<>>
                               ELSE SubSeq(done, 1, Len(done) - 1), Tail(rest))
              ELSE ResolveFrom(Append(done, c), Tail(rest))

\* Path(p).resolve() of an absolute path
Resolve(p) == ResolveFrom(<<>>, p)

\* Path.parent: the root is its own parent
Parent(p) == IF p = <<>> THEN <<>> ELSE SubSeq(p, 1, Len(p) - 1)

\* the directories of the modelled file system
ExistingDirs == {<<>>, <<"w">>, <<"w", "sub">>}

\* the regular files of the modelled file system: a text file, and a file that
\* is named .filex
ExistingFiles == {<<"w", "a.txt">>, <<"v", ".filex">>}

\* the repo_path values a request may carry; <<"none">> stands for an absent one
NoPath == <<"none">>
RequestPaths ==
    {<<"w">>, <<"w", "sub">>, <<"w", "sub", "..">>,
     <<"w", "a.txt">>, <<"x">>, NoPath}

NoRepo == <<"no-repository">>

\* repo_path.exists() and repo_path.is_dir() for a path named .filex or below one
Exists(filex, p) == p \in filex \/ p \in ExistingFiles
IsDir(filex, p) == p \in filex

\* a search that looks at the start directory only
find_repository_StartOnly(filex, current) ==
    IF /\ Exists(filex, Append(current, REPO_DIR_NAME))
       /\ IsDir(filex, Append(current, REPO_DIR_NAME))
    THEN Append(current, REPO_DIR_NAME)
    ELSE NoRepo

\* Repository.find_repository: walk up until a directory holds a directory .filex
RECURSIVE find_repository(_, _)
find_repository(filex, current) ==
    IF /\ Exists(filex, Append(current, REPO_DIR_NAME))
       /\ IsDir(filex, Append(current, REPO_DIR_NAME))
    THEN Append(current, REPO_DIR_NAME)
    ELSE IF Parent(current) = current THEN NoRepo
         ELSE find_repository(filex, Parent(current))

\* INDEX_DIR_NAME, EMBEDDINGS_DIR_NAME, METADATA_DIR_NAME
SUBDIR_NAMES == {"index", "embeddings", "metadata"}

\* a create_repository that makes .filex and none of its subdirectories
create_repository_Bare(filex, location) ==
    IF Exists(filex, Append(location, REPO_DIR_NAME)) THEN filex
    ELSE filex \cup {Append(location, REPO_DIR_NAME)}

\* Repository.create_repository: nothing when location/.filex exists, else mkdir
\* of .filex and of its three subdirectories
create_repository(filex, location) ==
    IF Exists(filex, Append(location, REPO_DIR_NAME)) THEN filex
    ELSE filex \cup {Append(location, REPO_DIR_NAME)}
               \cup {Append(Append(location, REPO_DIR_NAME), d) : d \in SUBDIR_NAMES}

\* Repository.__init__ with create=True: [repo_path, filex after construction]
Repository(filex, start_path) ==
    LET start == Resolve(start_path)
        found == find_repository(filex, start)
    IN  IF found = NoRepo
        THEN [repo_path |-> Append(start, REPO_DIR_NAME),
              filex |-> create_repository(filex, start)]
        ELSE [repo_path |-> found, filex |-> filex]

(***************************************************************************)
(* The indexing controller.                                                *)
(***************************************************************************)
MaxWorkers == 4     \* ThreadPoolExecutor(max_workers=4)

ActiveStatus == {"starting", "indexing"}
TerminalStatus == {"completed", "error"}

NoError == "none"

NewTask ==
    [status |-> "starting", indexed |-> 0, total |-> 0, errors |-> 0,
     message |-> "Initializing indexing...", error |-> NoError]

\* what a request asks to index: one file, a directory, or the whole work tree
Targets == {"file", "dir", "all"}

\* dict update d[k] = v and del d[k]
Put(d, k, v) == [x \in DOMAIN d \cup {k} |-> IF x = k THEN v ELSE d[x]]
Del(d, k) == [x \in DOMAIN d \ {k} |-> d[x]]

\* the request a response answers: the method and the path or task id it carried
NoRequest == <<>>
Post(repo_path) == <<"POST", repo_path>>
Delete(repo_id) == <<"DELETE", repo_id>>

NoResponse ==
    [request |-> NoRequest, code |-> 0, task_id |-> NoRepo, status |-> "none",
     indexed |-> 0, total |-> 0]

\* a reply that always reports the counters of a new task
Reply_NewCounts(req, code, id, st, ind, tot) ==
    [request |-> req, code |-> code, task_id |-> id, status |-> st,
     indexed |-> 0, total |-> 0]

Reply(req, code, id, st, ind, tot) ==
    [request |-> req, code |-> code, task_id |-> id, status |-> st,
     indexed |-> ind, total |-> tot]

\* an admission test that lets a second job in while the first is still starting
AdmissionRefused_IndexingOnly(tasks, repo_id) ==
    /\ repo_id \in DOMAIN tasks
    /\ tasks[repo_id].status = "indexing"

\* the admission test of index_files, made under state.lock
AdmissionRefused(tasks, repo_id) ==
    /\ repo_id \in DOMAIN tasks
    /\ tasks[repo_id].status \in {"starting", "indexing"}

\* POST /api/index: validation, repository lookup or creation, admission, dispatch
index_files(repo_path, target) ==
    /\ Len(jobs) < MaxJobs
    /\ IF repo_path = NoPath
       THEN /\ response' = Reply(Post(repo_path), 400, NoRepo, "none", 0, 0)
            /\ UNCHANGED <<has_filex, indexing_tasks, jobs>>
       ELSE LET path == Resolve(repo_path) IN
            IF path \notin ExistingDirs \cup ExistingFiles
            THEN /\ response' = Reply(Post(repo_path), 404, NoRepo, "none", 0, 0)
                 /\ UNCHANGED <<has_filex, indexing_tasks, jobs>>
            ELSE IF path \notin ExistingDirs
            THEN /\ response' = Reply(Post(repo_path), 400, NoRepo, "none", 0, 0)
                 /\ UNCHANGED <<has_filex, indexing_tasks, jobs>>
            ELSE LET repo == Repository(has_filex, repo_path)
                     repo_id == repo.repo_path
                 IN  /\ has_filex' = repo.filex
                     /\ IF AdmissionRefused(indexing_tasks, repo_id)
                        THEN /\ response' = Reply(Post(repo_path), 409, repo_id,
                                                  indexing_tasks[repo_id].status,
                                                  indexing_tasks[repo_id].indexed,
                                                  indexing_tasks[repo_id].total)
                             /\ UNCHANGED <<indexing_tasks, jobs>>
                        ELSE /\ indexing_tasks' = Put(indexing_tasks, repo_id, NewTask)
                             /\ jobs' = Append(jobs, [repo_id |-> repo_id,
                                                      target |-> target,
                                                      pc |-> "queued",
                                                      indexed |-> 0,
                                                      total |-> 0,
                                                      errors |-> 0])
                             /\ response' = Reply(Post(repo_path), 200, repo_id, "started", 0, 0)

Running == {i \in 1..Len(jobs) : jobs[i].pc # "queued"}

SetPc(i, pc) == [jobs EXCEPT ![i].pc = pc]

\* a closure that is run again after it has returned
Finish_RunAgain(i) == jobs

\* the closure returns: the pool thread drops it
Finish(i) == SubSeq(jobs, 1, i - 1) \o SubSeq(jobs, i + 1, Len(jobs))

\* index_task, first step, once a pool thread picks the closure up
index_task_begin(i) ==
    /\ jobs[i].pc = "queued"
    /\ Cardinality(Running) < MaxWorkers
    /\ LET id == jobs[i].repo_id IN
       IF id \in DOMAIN indexing_tasks
       THEN /\ indexing_tasks' =
                 [indexing_tasks EXCEPT ![id].status = "indexing",
                                        ![id].message = "Indexing files..."]
            /\ jobs' = SetPc(i, "run")
       ELSE /\ jobs' = SetPc(i, "except")
            /\ UNCHANGED indexing_tasks
    /\ response' = NoResponse
    /\ UNCHANGED has_filex

\* the counts an indexing run may return
RunCounts ==
    {c \in [indexed : 0..MaxFiles, skipped : 0..MaxFiles, errors : 0..MaxFiles] :
        c.indexed + c.skipped + c.errors <= MaxFiles}

\* index_task, the indexing run itself, outside the lock: index_file for a file
\* target, index_directory otherwise; either may raise
index_task_run(i) ==
    /\ jobs[i].pc = "run"
    /\ \/ \E c \in RunCounts :
            /\ jobs[i].target = "file" =>
                   c.errors = 0 /\ c.indexed + c.skipped = 1
            /\ jobs' = [jobs EXCEPT ![i].pc = "ran",
                                    ![i].indexed = c.indexed,
                                    ![i].total = c.indexed + c.skipped + c.errors,
                                    ![i].errors = c.errors]
       \/ jobs' = SetPc(i, "except")
    /\ response' = NoResponse
    /\ UNCHANGED <<has_filex, indexing_tasks>>

\* a worker that records every run as the run of one file
index_task_record_AsOneFile(i) ==
    /\ jobs[i].pc = "ran"
    /\ LET id == jobs[i].repo_id IN
       IF id \in DOMAIN indexing_tasks
       THEN /\ indexing_tasks' =
                 [indexing_tasks EXCEPT
                     ![id].indexed = jobs[i].indexed,
                     ![id].total = 1,
                     ![id].message = "File indexed successfully"]
            /\ jobs' = SetPc(i, "recorded")
       ELSE /\ jobs' = SetPc(i, "except")
            /\ UNCHANGED indexing_tasks
    /\ response' = NoResponse
    /\ UNCHANGED has_filex

\* index_task, the counters written under the lock after the run
index_task_record(i) ==
    /\ jobs[i].pc = "ran"
    /\ LET id == jobs[i].repo_id IN
       IF id \in DOMAIN indexing_tasks
       THEN /\ indexing_tasks' =
                 IF jobs[i].target = "file"
                 THEN [indexing_tasks EXCEPT
                          ![id].indexed = jobs[i].indexed,
                          ![id].total = 1,
                          ![id].message = IF jobs[i].indexed = 1
                                          THEN "File indexed successfully"
                                          ELSE "File skipped (unchanged)"]
                 ELSE [indexing_tasks EXCEPT
                          ![id].indexed = jobs[i].indexed,
                          ![id].total = jobs[i].total,
                          ![id].errors = jobs[i].errors,
                          ![id].message = "Indexed n of m files"]
            /\ jobs' = SetPc(i, "recorded")
       ELSE /\ jobs' = SetPc(i, "except")
            /\ UNCHANGED indexing_tasks
    /\ response' = NoResponse
    /\ UNCHANGED has_filex

\* index_task, the final status written under the lock
index_task_complete(i) ==
    /\ jobs[i].pc = "recorded"
    /\ LET id == jobs[i].repo_id IN
       IF id \in DOMAIN indexing_tasks
       THEN /\ indexing_tasks' =
                 [indexing_tasks EXCEPT
                     ![id].status = "completed",
                     ![id].message = "Indexing completed successfully"]
            /\ jobs' = Finish(i)
       ELSE /\ jobs' = SetPc(i, "except")
            /\ UNCHANGED indexing_tasks
    /\ response' = NoResponse
    /\ UNCHANGED has_filex

\* a worker whose exception ends the thread without a word in the task table
index_task_except_Silent(i) ==
    /\ jobs[i].pc = "except"
    /\ jobs' = Finish(i)
    /\ response' = NoResponse
    /\ UNCHANGED <<has_filex, indexing_tasks>>

\* index_task, the except clause; a missing record makes it raise and the thread ends
index_task_except(i) ==
    /\ jobs[i].pc = "except"
    /\ LET id == jobs[i].repo_id IN
       IF id \in DOMAIN indexing_tasks
       THEN indexing_tasks' =
                [indexing_tasks EXCEPT ![id].status = "error",
                                       ![id].error = "exception",
                                       ![id].message = "Indexing failed"]
       ELSE UNCHANGED indexing_tasks
    /\ jobs' = Finish(i)
    /\ response' = NoResponse
    /\ UNCHANGED has_filex

\* a clear_progress that does not look at the status of the record
clear_progress_AnyStatus(repo_id) ==
    /\ IF repo_id \in DOMAIN indexing_tasks
       THEN /\ indexing_tasks' = Del(indexing_tasks, repo_id)
            /\ response' = Reply(Delete(repo_id), 200, repo_id, "none", 0, 0)
       ELSE /\ response' = Reply(Delete(repo_id), 404, repo_id, "none", 0, 0)
            /\ UNCHANGED indexing_tasks
    /\ UNCHANGED <<has_filex, jobs>>

\* DELETE /api/progress/{repo_id}
clear_progress(repo_id) ==
    /\ IF repo_id \in DOMAIN indexing_tasks
       THEN IF indexing_tasks[repo_id].status \in {"completed", "error"}
            THEN /\ indexing_tasks' = Del(indexing_tasks, repo_id)
                 /\ response' = Reply(Delete(repo_id), 200, repo_id, "none", 0, 0)
            ELSE /\ response' = Reply(Delete(repo_id), 400, repo_id, "none", 0, 0)
                 /\ UNCHANGED indexing_tasks
       ELSE /\ response' = Reply(Delete(repo_id), 404, repo_id, "none", 0, 0)
            /\ UNCHANGED indexing_tasks
    /\ UNCHANGED <<has_filex, jobs>>

(***************************************************************************)
(* Arrays.  A matrix is absent (None) or has a width and a sequence of     *)
(* rows.  numpy turns None into the 1x1 object array [[None]] when it is   *)
(* stacked; such a row holds no number and is written <<>>, and the matrix *)
(* that contains it has dtype object.                                      *)
(***************************************************************************)
NoneArray == [none |-> TRUE, object |-> FALSE, width |-> 0, rows |-> <<>>]
Matrix(w, rows) == [none |-> FALSE, object |-> FALSE, width |-> w, rows |-> rows]
NoneRow == <<>>

\* an array handed in by a caller: ndim 1 (a vector, kept as the single row) or 2
Vector(v) == [ndim |-> 1, width |-> Len(v), rows |-> <<v>>]
Array2D(w, rows) == [ndim |-> 2, width |-> w, rows |-> rows]

\* embeddings.shape[0]
Shape0(a) == IF a.ndim = 1 THEN a.width ELSE Len(a.rows)

\* embeddings.reshape(1, -1)
Reshape1(a) == [a EXCEPT !.ndim = 2]

\* an indexing that returns the leading rows instead of the rows asked for
TakeRows_Leading(E, idx) == [E EXCEPT !.rows = SubSeq(E.rows, 1, Len(idx))]

\* E[indices]: fancy indexing keeps width and dtype
TakeRows(E, idx) == [E EXCEPT !.rows = [k \in 1..Len(idx) |-> E.rows[idx[k]]]]

\* np.vstack([E, V]).  atleast_2d(None) is the 1x1 object array [[None]], so
\* stacking onto None raises unless V has width 1 and then yields an object matrix
VStackRaises(E, V) ==
    IF E.none THEN V.width # 1 ELSE E.width # V.width

VStack(E, V) ==
    IF E.none
    THEN [none |-> FALSE, object |-> TRUE, width |-> 1, rows |-> <<NoneRow>> \o V.rows]
    ELSE [E EXCEPT !.rows = E.rows \o V.rows]

(***************************************************************************)
(* File names of the vector index model.                                   *)
(***************************************************************************)
A_TXT == <<"w", "a.txt">>
B_TXT == <<"w", "b.txt">>
P_PNG == <<"w", "P.PNG">>
D_BIN == <<"w", "d.bin">>
C_TXT == <<"w", "sub", "c.txt">>
NOTES_TXT == <<"w", ".filex", "notes.txt">>

IndexedFiles == {A_TXT, B_TXT, P_PNG}

\* the paths callers pass: the canonical ones and a spelling that resolves to a.txt
CallerPaths == IndexedFiles \cup {<<"w", ".", "a.txt">>}

\* Path(p).name
Name(p) == p[Len(p)]

\* Path(p).suffix.lower()
Suffix(p) ==
    CASE Name(p) = "a.txt" -> ".txt"
      [] Name(p) = "b.txt" -> ".txt"
      [] Name(p) = "P.PNG" -> ".png"
      [] Name(p) = "c.txt" -> ".txt"
      [] Name(p) = "notes.txt" -> ".txt"
      [] Name(p) = "d.bin" -> ".bin"
      [] OTHER -> ""

IMAGE_EXTENSIONS == {".png", ".jpg", ".jpeg"}

(***************************************************************************)
(* SearchManager.                                                          *)
(***************************************************************************)
EmptyManager ==
    [embeddings |-> NoneArray, metadata |-> <<>>,
     image_embeddings |-> NoneArray, image_metadata |-> <<>>]

NoFile == [exists |-> FALSE, data |-> <<>>]
File(d) == [exists |-> TRUE, data |-> d]

EmptyIndexDir ==
    [search_index |-> NoneArray, search_metadata |-> NoFile,
     image_search_index |-> NoneArray, image_search_metadata |-> NoFile]

\* SearchManager._save_search_data: a kind is written only when its matrix has rows
save_search_data(m, dir) ==
    LET d1 == IF ~m.embeddings.none /\ Len(m.embeddings.rows) > 0
              THEN [dir EXCEPT !.search_index = m.embeddings,
                               !.search_metadata = File(m.metadata)]
              ELSE dir
    IN  IF ~m.image_embeddings.none /\ Len(m.image_embeddings.rows) > 0
        THEN [d1 EXCEPT !.image_search_index = m.image_embeddings,
                        !.image_search_metadata = File(m.image_metadata)]
        ELSE d1

\* [i for i, meta in enumerate(M) if meta["file_path"] == file_path] and its complement
IndicesOf(M, file_path) == {i \in 1..Len(M) : M[i].file_path = file_path}

RECURSIVE Ascending(_)
Ascending(S) ==
    IF S = {} THEN <<>>
    ELSE LET lo == CHOOSE x \in S : \A y \in S : x <= y
         IN  <<lo>> \o Ascending(S \ {lo})

IndicesToKeep(M, file_path) == Ascending((1..Len(M)) \ IndicesOf(M, file_path))

\* one kind's block of remove_file_embeddings: [E, M, removed, raised].  The
\* metadata list is replaced before the matrix is indexed.
RemoveFrom(E, M, file_path) ==
    LET Kept(keep, M1) ==
            IF keep # <<>>
            THEN IF E.none
                 THEN [E |-> E, M |-> M1, removed |-> TRUE, raised |-> "none"]
                 ELSE IF \E k \in 1..Len(keep) : keep[k] > Len(E.rows)
                 THEN [E |-> E, M |-> M1, removed |-> FALSE, raised |-> "IndexError"]
                 ELSE [E |-> TakeRows(E, keep), M |-> M1,
                       removed |-> TRUE, raised |-> "none"]
            ELSE [E |-> NoneArray, M |-> <<>>, removed |-> TRUE, raised |-> "none"]
        Keep(keep) == Kept(keep, [k \in 1..Len(keep) |-> M[keep[k]]])
    IN  IF IndicesOf(M, file_path) = {}
        THEN [E |-> E, M |-> M, removed |-> FALSE, raised |-> "none"]
        ELSE Keep(IndicesToKeep(M, file_path))

\* the is_image argument of remove_file_embeddings: None, False or True
IsImageArgs == {"None", "False", "True"}

\* SearchManager.remove_file_embeddings(file_path, is_image): [sm, dir, raised].
\* The text block runs first, then the image block, then the save when a block
\* removed something.
remove_file_embeddings(m, dir, path, is_image) ==
    LET Block(selected, E, M, file_path) ==
            IF selected THEN RemoveFrom(E, M, file_path)
            ELSE [E |-> E, M |-> M, removed |-> FALSE, raised |-> "none"]
        Save(m2, t, i) ==
            IF i.raised # "none"
            THEN [sm |-> m2, dir |-> dir, raised |-> i.raised]
            ELSE [sm |-> m2,
                  dir |-> IF t.removed \/ i.removed
                          THEN save_search_data(m2, dir) ELSE dir,
                  raised |-> "none"]
        Image(m1, t, i) ==
            Save([m1 EXCEPT !.image_embeddings = i.E, !.image_metadata = i.M], t, i)
        Text(file_path, m1, t) ==
            IF t.raised # "none"
            THEN [sm |-> m1, dir |-> dir, raised |-> t.raised]
            ELSE Image(m1, t, Block(is_image \in {"None", "True"},
                                    m1.image_embeddings, m1.image_metadata, file_path))
        Blocks(file_path, t) ==
            Text(file_path, [m EXCEPT !.embeddings = t.E, !.metadata = t.M], t)
        Resolved(file_path) ==
            Blocks(file_path, Block(is_image \in {"None", "False"},
                                    m.embeddings, m.metadata, file_path))
    IN  Resolved(Resolve(path))

\* the metadata records appended for a file's chunks, chunk_index counted from 0
MetadataEntries(file_path, chunks) ==
    [i \in 1..Len(chunks) |->
        [file_path |-> file_path, file_name |-> Name(file_path),
         chunk_index |-> i - 1, chunk_text |-> chunks[i]]]

\* the kind add_file_embeddings selects: the flag, else the file's extension
SelectsImage(file_path, is_image) ==
    is_image \/ Suffix(file_path) \in IMAGE_EXTENSIONS

\* SearchManager.add_file_embeddings(file_path, chunks, embeddings, is_image):
\* [sm, dir, raised].  target_embeddings is read before the file's old rows are
\* removed and is tested after.
add_file_embeddings(m, dir, path, chunks, embeddings_in, is_image_in) ==
    LET \* the kind's matrix becomes E and the file's records are appended
        Appended(s, is_image, file_path, E) ==
            IF is_image
            THEN [s EXCEPT !.image_embeddings = E,
                           !.image_metadata = s.image_metadata
                               \o MetadataEntries(file_path, chunks)]
            ELSE [s EXCEPT !.embeddings = E,
                           !.metadata = s.metadata
                               \o MetadataEntries(file_path, chunks)]
        Saved(m1, d) == [sm |-> m1, dir |-> save_search_data(m1, d), raised |-> "none"]
        \* np.vstack onto the kind's current matrix cur
        Stacked(r, is_image, file_path, cur, V) ==
            IF VStackRaises(cur, V)
            THEN [sm |-> r.sm, dir |-> r.dir, raised |-> "ValueError"]
            ELSE Saved(Appended(r.sm, is_image, file_path, VStack(cur, V)), r.dir)
        \* after the removal r, with the target_embeddings read before it
        Added(r, is_image, file_path, target_embeddings, V) ==
            IF r.raised # "none" THEN r
            ELSE IF target_embeddings.none
            THEN Saved(Appended(r.sm, is_image, file_path, V), r.dir)
            ELSE IF V.width # target_embeddings.width
            THEN [sm |-> r.sm, dir |-> r.dir, raised |-> "ValueError"]
            ELSE Stacked(r, is_image, file_path,
                         IF is_image THEN r.sm.image_embeddings ELSE r.sm.embeddings, V)
        Selected(file_path, is_image, embeddings) ==
            Added(remove_file_embeddings(m, dir, file_path,
                                         IF is_image THEN "True" ELSE "False"),
                  is_image, file_path,
                  IF is_image THEN m.image_embeddings ELSE m.embeddings,
                  Matrix(embeddings.width, embeddings.rows))
        Reshaped(file_path, embeddings) ==
            IF Len(chunks) # Shape0(embeddings)
            THEN [sm |-> m, dir |-> dir, raised |-> "ValueError"]
            ELSE Selected(file_path, SelectsImage(file_path, is_image_in), embeddings)
    IN  Reshaped(Resolve(path),
                 IF embeddings_in.ndim = 1 THEN Reshape1(embeddings_in)
                 ELSE embeddings_in)

(***************************************************************************)
(* Cosine search.  Scores are the real numbers the expressions denote      *)
(* (rounding is not modelled): for a row e and a query q the score is      *)
(*     (e . q) / ((|e| + 1e-8) * |q|).                                     *)
(* A score is kept as the three integers e.q, |e|^2 and |q|^2 and two       *)
(* scores are compared exactly.                                            *)
(***************************************************************************)
RECURSIVE Dot(_, _)
Dot(u, v) == IF u = <<>> THEN 0 ELSE Head(u) * Head(v) + Dot(Tail(u), Tail(v))

Norm2(v) == Dot(v, v)

Sgn(x) == IF x > 0 THEN 1 ELSE IF x < 0 THEN -1 ELSE 0

Score(e, q) == [dot |-> Dot(e, q), row2 |-> Norm2(e), q2 |-> Norm2(q)]

\* the cosine, as the signed square dot*|dot| / (row2 * q2); a zero row scores 0
CosNum(x) == Sgn(x.dot) * x.dot * x.dot
CosDen(x) == IF x.row2 = 0 THEN 1 ELSE x.row2 * x.q2

CosLess(x, y) == CosNum(x) * CosDen(y) < CosNum(y) * CosDen(x)
CosEqual(x, y) == CosNum(x) * CosDen(y) = CosNum(y) * CosDen(x)

\* x < y as similarity scores: by cosine, and for equal cosines by the factor
\* |e| / (|e| + 1e-8), which grows with |e|
SimLess(x, y) ==
    \/ CosLess(x, y)
    \/ /\ CosEqual(x, y)
       /\ \/ x.dot > 0 /\ x.row2 < y.row2
          \/ x.dot < 0 /\ x.row2 > y.row2

SimEqual(x, y) == ~SimLess(x, y) /\ ~SimLess(y, x)

\* a query that was not given (image_query_embedding=None)
NoQuery == <<>>

\* a test that lets a zero query through to the sweep
Scored_ZeroQuery(E, q) ==
    /\ ~E.none /\ Len(E.rows) > 0
    /\ q # NoQuery
    /\ Len(q) = E.width

\* whether a kind is swept: it has rows, the query is there, fits and is not zero
Scored(E, q) ==
    /\ ~E.none /\ Len(E.rows) > 0
    /\ q # NoQuery
    /\ Len(q) = E.width
    /\ Norm2(q) > 0

\* a sweep that stops after the first record
Sweep_FirstRecord(E, M, q, kind) ==
    [idx \in 1..(IF Len(M) = 0 THEN 0 ELSE 1) |->
        [file_path |-> M[idx].file_path, file_name |-> M[idx].file_name,
         chunk_index |-> M[idx].chunk_index, chunk_text |-> M[idx].chunk_text,
         similarity_score |-> Score(E.rows[idx], q),
         kind |-> kind, row |-> idx]]

\* the sweep of one kind, in index order; kind tags the result for the model only
Sweep(E, M, q, kind) ==
    [idx \in 1..Len(M) |->
        [file_path |-> M[idx].file_path, file_name |-> M[idx].file_name,
         chunk_index |-> M[idx].chunk_index, chunk_text |-> M[idx].chunk_text,
         similarity_score |-> Score(E.rows[idx], q),
         kind |-> kind, row |-> idx]]

\* what makes the sweep of a scored kind raise: linalg.norm of an object matrix,
\* or similarities[idx] past the last row
SweepRaises(E, M) ==
    IF E.object THEN "TypeError"
    ELSE IF Len(M) > Len(E.rows) THEN "IndexError"
    ELSE "none"

\* list.sort(key=similarity_score, reverse=True): stable, highest first
RECURSIVE InsertDescending(_, _)
InsertDescending(sorted, x) ==
    IF sorted = <<>> THEN <<x>>
    ELSE IF SimLess(Head(sorted).similarity_score, x.similarity_score)
         THEN <<x>> \o sorted
         ELSE <<Head(sorted)>> \o InsertDescending(Tail(sorted), x)

RECURSIVE SortDescending(_, _)
SortDescending(sorted, rest) ==
    IF rest = <<>> THEN sorted
    ELSE SortDescending(InsertDescending(sorted, Head(rest)), Tail(rest))

Min(a, b) == IF a < b THEN a ELSE b

\* a search that does not validate top_k
search_TopKUnchecked(m, query_embedding, top_k, image_query_embedding) ==
    LET text_on == Scored(m.embeddings, query_embedding)
        image_on == Scored(m.image_embeddings, image_query_embedding)
        text_err == IF text_on THEN SweepRaises(m.embeddings, m.metadata) ELSE "none"
        image_err == IF image_on
                     THEN SweepRaises(m.image_embeddings, m.image_metadata)
                     ELSE "none"
    IN  IF text_err # "none" THEN [raised |-> text_err, results |-> <<>>]
        ELSE IF image_err # "none" THEN [raised |-> image_err, results |-> <<>>]
        ELSE LET all_results ==
                     (IF text_on
                      THEN Sweep(m.embeddings, m.metadata, query_embedding, "text")
                      ELSE <<>>)
                     \o
                     (IF image_on
                      THEN Sweep(m.image_embeddings, m.image_metadata,
                                 image_query_embedding, "image")
                      ELSE <<>>)
                 sorted == SortDescending(<<>>, all_results)
             IN  [raised |-> "none",
                  results |-> SubSeq(sorted, 1, Min(top_k, Len(sorted)))]

\* SearchManager.search(query_embedding, top_k, image_query_embedding):
\* [raised, results]
search(m, query_embedding, top_k, image_query_embedding) ==
    IF top_k <= 0 THEN [raised |-> "ValueError", results |-> <<>>]
    ELSE
    LET text_on == Scored(m.embeddings, query_embedding)
        image_on == Scored(m.image_embeddings, image_query_embedding)
        text_err == IF text_on THEN SweepRaises(m.embeddings, m.metadata) ELSE "none"
        image_err == IF image_on
                     THEN SweepRaises(m.image_embeddings, m.image_metadata)
                     ELSE "none"
    IN  IF text_err # "none" THEN [raised |-> text_err, results |-> <<>>]
        ELSE IF image_err # "none" THEN [raised |-> image_err, results |-> <<>>]
        ELSE LET all_results ==
                     (IF text_on
                      THEN Sweep(m.embeddings, m.metadata, query_embedding, "text")
                      ELSE <<>>)
                     \o
                     (IF image_on
                      THEN Sweep(m.image_embeddings, m.image_metadata,
                                 image_query_embedding, "image")
                      ELSE <<>>)
                 sorted == SortDescending(<<>>, all_results)
             IN  [raised |-> "none",
                  results |-> SubSeq(sorted, 1, Min(top_k, Len(sorted)))]

(***************************************************************************)
(* The arguments the model passes to the SearchManager.                    *)
(***************************************************************************)
Unit(w) == [j \in 1..w |-> IF j = 1 THEN 1 ELSE 0]
Opposite(w) == [j \in 1..w |-> IF j = 1 THEN -1 ELSE 0]
Zero(w) == [j \in 1..w |-> 0]
Ones(w) == [j \in 1..w |-> 1]
Last(w) == [j \in 1..w |-> IF j = w THEN 1 ELSE 0]

\* the vectors rows and queries are taken from
Palette(w) == <<Unit(w), Opposite(w), Zero(w), Ones(w), Last(w)>>

Texts == <<"x", "y", "z">>

Cyclic(seq, k) == seq[((k - 1) % Len(seq)) + 1]

\* the matrix tried with n chunks: n rows of width w, no row shared by two sizes
SampleMatrix(n, w) == Array2D(w, [i \in 1..n |-> Cyclic(Palette(w), n + i - 1)])

\* the chunk texts tried with n chunks
SampleChunks(n) == [i \in 1..n |-> Cyclic(Texts, n + i - 1)]

Widths == 1..MaxWidth

\* (chunks, embeddings) pairs: matching pairs of every shape, single vectors given
\* as 1-D arrays, and pairs whose counts differ
AddArguments ==
    {<<SampleChunks(n), SampleMatrix(n, w)>> : n \in 0..MaxChunks, w \in Widths}
    \cup {<<SampleChunks(1), Vector(Unit(w))>> : w \in Widths}
    \cup {<<SampleChunks(n + 1), SampleMatrix(n, MaxWidth)>> : n \in 0..1}

TextQueries == {Unit(MaxWidth), Ones(MaxWidth), Zero(MaxWidth), Unit(1)}
ImageQueries == {NoQuery, Ones(MaxWidth), Opposite(1)}
TopKs == 0..MaxTopK

\* the last call: its name, the exception it raised, and the rows a removal deleted
\* or the results a search returned
NoCall == [op |-> "none", raised |-> "none", n |-> 0]

\* metadata records of both kinds
TotalRows(m) == Len(m.metadata) + Len(m.image_metadata)

\* a step of a caller of add_file_embeddings(path, chunks, embeddings)
AddFileEmbeddings(path, chunks, embeddings) ==
    \E r \in {add_file_embeddings(sm, index_dir, path, chunks, embeddings, FALSE)} :
       /\ sm' = r.sm
       /\ index_dir' = r.dir
       /\ call' = [op |-> "add", raised |-> r.raised, n |-> 0]

\* a step of a caller of remove_file_embeddings(path, is_image)
RemoveFileEmbeddings(path, is_image) ==
    \E r \in {remove_file_embeddings(sm, index_dir, path, is_image)} :
       /\ sm' = r.sm
       /\ index_dir' = r.dir
       /\ call' = [op |-> "remove", raised |-> r.raised,
                   n |-> TotalRows(sm) - TotalRows(r.sm)]

\* a step of a caller of search(query_embedding, top_k, image_query_embedding)
Search(q, top_k, iq) ==
    \E r \in {search(sm, q, top_k, iq)} :
       /\ call' = [op |-> "search", raised |-> r.raised, n |-> Len(r.results)]
       /\ UNCHANGED <<sm, index_dir>>

(***************************************************************************)
(* Loading, and saving file by file.  _save_search_data writes the matrix  *)
(* file and then the metadata sidecar of each kind that has rows;          *)
(* _load_search_data reads them in the same order.  A file that is opened  *)
(* for writing exists and cannot be parsed until it is written.            *)
(***************************************************************************)
INDEX_FILES ==
    <<"search_index", "search_metadata", "image_search_index", "image_search_metadata">>

\* Path.exists() of the matrix file and of the sidecar of a kind
IndexExists(dir, unwritten, name) == name \in unwritten \/ ~dir[name].none
MetadataExists(dir, unwritten, name) == name \in unwritten \/ dir[name].exists

\* np.load: a file being written and a pickled object array both raise
LoadRaises(dir, unwritten, name) == name \in unwritten \/ dir[name].object

\* one kind's block of _load_search_data: [E, M]; any exception starts fresh
load_kind(dir, unwritten, index_name, metadata_name) ==
    IF IndexExists(dir, unwritten, index_name)
       /\ MetadataExists(dir, unwritten, metadata_name)
    THEN IF LoadRaises(dir, unwritten, index_name) \/ metadata_name \in unwritten
         THEN [E |-> NoneArray, M |-> <<>>]
         ELSE [E |-> dir[index_name], M |-> dir[metadata_name].data]
    ELSE [E |-> NoneArray, M |-> <<>>]

\* SearchManager.__init__ on an index directory: _load_search_data
load_search_data(dir, unwritten) ==
    LET Loaded(t, i) ==
            [embeddings |-> t.E, metadata |-> t.M,
             image_embeddings |-> i.E, image_metadata |-> i.M]
    IN  Loaded(load_kind(dir, unwritten, "search_index", "search_metadata"),
               load_kind(dir, unwritten, "image_search_index", "image_search_metadata"))

\* the manager a search request is building: where its load stands and what it holds
NoReader == [pc |-> "idle", m |-> EmptyManager]

\* the arguments of the indexer's calls while saves are followed file by file:
\* every file comes with the largest number of chunks
FlushPaths == {A_TXT, B_TXT, P_PNG}
FlushArguments == {<<SampleChunks(MaxChunks), SampleMatrix(MaxChunks, MaxWidth)>>}

\* the saves a call makes, oldest first: remove_file_embeddings saves when it
\* removed rows, add_file_embeddings saves once more when it has appended
SavesOfRemove(m, r) == IF r.raised = "none" /\ r.sm # m THEN <<r.sm>> ELSE <<>>
SavesOfAdd(m, removed, added) ==
    SavesOfRemove(m, removed) \o (IF added.raised = "none" THEN <<added.sm>> ELSE <<>>)

\* the indexer calls add_file_embeddings; its saves are still to be made
StartAdd(path, chunks, embeddings) ==
    /\ queue = <<>>
    /\ \E a \in {add_file_embeddings(sm, index_dir, path, chunks, embeddings, FALSE)},
          r \in {remove_file_embeddings(sm, index_dir, Resolve(path),
                     IF SelectsImage(Resolve(path), FALSE) THEN "True" ELSE "False")} :
          /\ sm' = a.sm
          /\ queue' = SavesOfAdd(sm, r, a)
          /\ call' = [op |-> "add", raised |-> a.raised, n |-> 0]
    /\ wpc' = 0
    /\ UNCHANGED <<index_dir, torn, reader, stops>>

\* the indexer calls remove_file_embeddings
StartRemove(path, is_image) ==
    /\ queue = <<>>
    /\ \E r \in {remove_file_embeddings(sm, index_dir, path, is_image)} :
          /\ sm' = r.sm
          /\ queue' = SavesOfRemove(sm, r)
          /\ call' = [op |-> "remove", raised |-> r.raised,
                      n |-> TotalRows(sm) - TotalRows(r.sm)]
    /\ wpc' = 0
    /\ UNCHANGED <<index_dir, torn, reader, stops>>

\* what _save_search_data writes into the file numbered fno from the manager s
FileContent(s, fno) ==
    CASE fno = 1 -> s.embeddings
      [] fno = 2 -> File(s.metadata)
      [] fno = 3 -> s.image_embeddings
      [] OTHER -> File(s.image_metadata)

\* whether _save_search_data writes the kind of file fno at all
KindSaved(s, fno) ==
    IF fno <= 2 THEN ~s.embeddings.none /\ Len(s.embeddings.rows) > 0
    ELSE ~s.image_embeddings.none /\ Len(s.image_embeddings.rows) > 0

\* the position after pc; past the last file the save is done
Advance(pc) ==
    IF pc >= 2 * Len(INDEX_FILES)
    THEN /\ queue' = Tail(queue)
         /\ wpc' = 0
    ELSE /\ wpc' = pc
         /\ UNCHANGED queue

\* one step of _save_search_data: a kind without rows is passed over, a file is
\* opened (and truncated), or the opened file is written and closed
FlushStep ==
    /\ queue # <<>>
    /\ \E s \in {Head(queue)}, fno \in {(wpc \div 2) + 1} :
          IF ~KindSaved(s, fno)
          THEN /\ Advance(wpc + 4)
               /\ UNCHANGED <<index_dir, torn>>
          ELSE IF wpc % 2 = 0
          THEN /\ torn' = torn \cup {INDEX_FILES[fno]}
               /\ Advance(wpc + 1)
               /\ UNCHANGED index_dir
          ELSE /\ index_dir' = [index_dir EXCEPT ![INDEX_FILES[fno]] = FileContent(s, fno)]
               /\ torn' = torn \ {INDEX_FILES[fno]}
               /\ Advance(wpc + 1)
    /\ UNCHANGED <<sm, call, reader, stops>>

\* a search request builds its SearchManager (GlobalState.get_repo_manager)
StartLoad ==
    /\ reader.pc \in {"idle", "loaded"}
    /\ reader' = [pc |-> "text_index", m |-> EmptyManager]
    /\ UNCHANGED <<sm, index_dir, call, queue, wpc, torn, stops>>

\* the reader's step at a matrix file: the existence test of both files and np.load
ReadIndex(index_name, metadata_name, field, then, else) ==
    IF IndexExists(index_dir, torn, index_name)
       /\ MetadataExists(index_dir, torn, metadata_name)
       /\ ~LoadRaises(index_dir, torn, index_name)
    THEN reader' = [pc |-> then, m |-> [reader.m EXCEPT ![field] = index_dir[index_name]]]
    ELSE reader' = [reader EXCEPT !.pc = else]

\* the reader's step at a sidecar: json.load, and the except branch when it fails
ReadMetadata(metadata_name, index_field, field, then) ==
    IF metadata_name \in torn
    THEN reader' = [pc |-> then, m |-> [reader.m EXCEPT ![index_field] = NoneArray]]
    ELSE reader' = [pc |-> then,
                    m |-> [reader.m EXCEPT ![field] = index_dir[metadata_name].data]]

\* one step of the reader's _load_search_data
LoadStep ==
    /\ CASE reader.pc = "text_index" ->
                ReadIndex("search_index", "search_metadata", "embeddings",
                          "text_metadata", "image_index")
         [] reader.pc = "text_metadata" ->
                ReadMetadata("search_metadata", "embeddings", "metadata", "image_index")
         [] reader.pc = "image_index" ->
                ReadIndex("image_search_index", "image_search_metadata",
                          "image_embeddings", "image_metadata", "loaded")
         [] reader.pc = "image_metadata" ->
                ReadMetadata("image_search_metadata", "image_embeddings",
                             "image_metadata", "loaded")
         [] OTHER -> FALSE
    /\ UNCHANGED <<sm, index_dir, call, queue, wpc, torn, stops>>

\* the process stops during a save and is started again: the files stay as they
\* are and the new SearchManager loads them
Stop ==
    /\ queue # <<>>
    /\ stops < MaxStops
    /\ stops' = stops + 1
    /\ sm' = load_search_data(index_dir, torn)
    /\ queue' = <<>>
    /\ wpc' = 0
    /\ reader' = NoReader
    /\ call' = [op |-> "restart", raised |-> "none", n |-> 0]
    /\ UNCHANGED <<index_dir, torn>>

(***************************************************************************)
(* Per-file indexing.  A file's bytes are its text, a sequence of          *)
(* characters; times are integers.                                         *)
(***************************************************************************)
GONE_TXT == <<"w", "gone.txt">>

\* the text files of the work tree, every file under w, and the paths index_file
\* is called with
WorkFiles == {A_TXT, B_TXT}
TreeFiles == WorkFiles \cup {P_PNG, D_BIN, C_TXT, NOTES_TXT}
IndexPaths == WorkFiles \cup {<<"w", ".", "a.txt">>, GONE_TXT, P_PNG, D_BIN}

\* the contents a file is given: empty, two of one character, blank, two chunks
FileTexts == {<<>>, <<"a">>, <<"b">>, <<" ">>, <<"a", "b", "a", "b">>}
MTimes == 1..MaxMTime

\* FixedSizeChunker(chunk_size, overlap) of the text handler, scaled down
CHUNK_SIZE == 3
OVERLAP == 1

\* the dimension of the text embedder, scaled down
EMBED_DIM == 2

\* chunk.strip(): whether anything but white space is left
Strip(chunk) == SelectSeq(chunk, LAMBDA c : c # " ")

\* FixedSizeChunker.chunk, the loop from offset start
RECURSIVE ChunkFrom(_, _)
ChunkFrom(text, start) ==
    IF start >= Len(text) THEN <<>>
    ELSE LET end == Min(start + CHUNK_SIZE, Len(text))
             chunk == SubSeq(text, start + 1, end)
         IN  (IF Strip(chunk) # <<>> THEN <<chunk>> ELSE <<>>)
             \o ChunkFrom(text, start + (CHUNK_SIZE - OVERLAP))

\* FixedSizeChunker.chunk
chunk(text) ==
    IF text = <<>> THEN <<>>
    ELSE LET chunks == ChunkFrom(text, 0)
         IN  IF chunks # <<>> THEN chunks ELSE <<text>>

\* the embedder: a fixed function from a chunk to a vector of EMBED_DIM numbers,
\* here the number of times each letter occurs in it
Alphabet == <<"a", "b">>
Occurrences(text, c) == Len(SelectSeq(text, LAMBDA x : x = c))
embed(text) ==
    [j \in 1..EMBED_DIM |->
        IF j <= Len(Alphabet) THEN Occurrences(text, Alphabet[j]) ELSE 0]
embed_batch(chunks) == Array2D(EMBED_DIM, [i \in 1..Len(chunks) |-> embed(chunks[i])])

\* TextEmbeddingHandler.embed_text: [raised, chunks, embeddings]
embed_text(text) ==
    LET Embedded(chunks) ==
            IF chunks = <<>>
            THEN [raised |-> "ValueError", chunks |-> <<>>,
                  embeddings |-> Array2D(0, <<>>)]
            ELSE [raised |-> "none", chunks |-> chunks,
                  embeddings |-> embed_batch(chunks)]
    IN  IF text = <<>>
        THEN [raised |-> "ValueError", chunks |-> <<>>, embeddings |-> Array2D(0, <<>>)]
        ELSE Embedded(chunk(text))

\* hashlib.sha256 of the bytes: a digest that tells any two contents apart
compute_file_hash(text) == <<"sha256">> \o text

\* datetime.isoformat() and datetime.fromisoformat(): the TEXT column of a time
isoformat(t) == <<"T", t>>
fromisoformat(column) == column[2]

\* an absent value of a nullable integer column
None == -1

\* FileMetadata.from_path
TEXT_EXTENSIONS == {".txt", ".docx"}
FileMetadata(fs, file_path) ==
    [file_path |-> file_path, file_name |-> Name(file_path),
     file_extension |-> Suffix(file_path),
     file_size_bytes |-> Len(fs[file_path].text),
     is_text_type |-> Suffix(file_path) \in TEXT_EXTENSIONS,
     modified_time |-> fs[file_path].mtime]

\* a has_changed that takes an equal modification time for a newer one
has_changed_NotOlder(cat, fs, metadata) ==
    IF metadata.file_path \notin DOMAIN cat THEN TRUE
    ELSE LET entry == cat[metadata.file_path] IN
         IF entry.file_size # metadata.file_size_bytes THEN TRUE
         ELSE IF fromisoformat(entry.modified_time) <= metadata.modified_time THEN TRUE
         ELSE entry.file_hash # compute_file_hash(fs[metadata.file_path].text)

\* a has_changed that trusts size and modification time and never reads the file
has_changed_NoHash(cat, fs, metadata) ==
    IF metadata.file_path \notin DOMAIN cat THEN TRUE
    ELSE LET entry == cat[metadata.file_path] IN
         IF entry.file_size # metadata.file_size_bytes THEN TRUE
         ELSE fromisoformat(entry.modified_time) < metadata.modified_time

\* IndexManager.has_changed
has_changed(cat, fs, metadata) ==
    IF metadata.file_path \notin DOMAIN cat THEN TRUE
    ELSE LET entry == cat[metadata.file_path] IN
         IF entry.file_size # metadata.file_size_bytes THEN TRUE
         ELSE IF fromisoformat(entry.modified_time) < metadata.modified_time THEN TRUE
         ELSE entry.file_hash # compute_file_hash(fs[metadata.file_path].text)

\* an add_entry that inserts and leaves an existing row of the path as it is
add_entry_OrIgnore(cat, metadata, file_hash, num_chunks, embedding_dimension, clock) ==
    IF metadata.file_path \in DOMAIN cat THEN cat
    ELSE Put(cat, metadata.file_path,
             [file_hash |-> file_hash,
              file_size |-> metadata.file_size_bytes,
              modified_time |-> isoformat(metadata.modified_time),
              indexed_time |-> isoformat(clock),
              extension |-> metadata.file_extension,
              is_text_type |-> metadata.is_text_type,
              num_chunks |-> num_chunks,
              embedding_dimension |-> embedding_dimension])

\* IndexManager.add_entry: INSERT OR REPLACE of the file's row, stamped with the clock
add_entry(cat, metadata, file_hash, num_chunks, embedding_dimension, clock) ==
    Put(cat, metadata.file_path,
        [file_hash |-> file_hash,
         file_size |-> metadata.file_size_bytes,
         modified_time |-> isoformat(metadata.modified_time),
         indexed_time |-> isoformat(clock),
         extension |-> metadata.file_extension,
         is_text_type |-> metadata.is_text_type,
         num_chunks |-> num_chunks,
         embedding_dimension |-> embedding_dimension])

\* TextFileHandler.can_handle
can_handle(metadata) ==
    metadata.is_text_type /\ metadata.file_extension \in {".txt", ".docx"}

\* the dimension of the image embedder, scaled down
IMAGE_EMBED_DIM == 1

\* ImageFileHandler.can_handle: "True", "False", or the AttributeError of reading
\* an attribute the metadata object does not have
image_can_handle(metadata) ==
    IF "is_image_type" \notin DOMAIN metadata THEN "AttributeError"
    ELSE IF metadata.is_image_type /\ metadata.file_extension \in IMAGE_EXTENSIONS
         THEN "True" ELSE "False"

\* ImageFileHandler.process: one chunk, the path, and the embedding of the picture
image_process(fs, metadata) ==
    [raised |-> "none", processed |-> TRUE,
     chunks |-> <<metadata.file_path>>,
     embeddings |-> Array2D(IMAGE_EMBED_DIM,
                            <<[j \in 1..IMAGE_EMBED_DIM |->
                                  Len(fs[metadata.file_path].text)]>>),
     num_chunks |-> 1, embedding_dimension |-> IMAGE_EMBED_DIM]

\* DefaultFileHandler.process: the metadata only
default_process(metadata) ==
    [raised |-> "none", processed |-> FALSE,
     chunks |-> <<>>, embeddings |-> Array2D(0, <<>>),
     num_chunks |-> None, embedding_dimension |-> None]

\* FileProcessorRouter.process_file with the handlers of web_app.py, in the order
\* text, image, default; an exception of can_handle or process leaves the router:
\* [raised, processed, chunks, embeddings, num_chunks, embedding_dimension]
process_file(fs, file_path) ==
    LET Handled(e) ==
            [raised |-> e.raised, processed |-> e.raised = "none",
             chunks |-> e.chunks, embeddings |-> e.embeddings,
             num_chunks |-> Len(e.chunks), embedding_dimension |-> e.embeddings.width]
        Image(metadata, accepted) ==
            IF accepted = "AttributeError"
            THEN [raised |-> "AttributeError", processed |-> FALSE,
                  chunks |-> <<>>, embeddings |-> Array2D(0, <<>>),
                  num_chunks |-> None, embedding_dimension |-> None]
            ELSE IF accepted = "True" THEN image_process(fs, metadata)
            ELSE default_process(metadata)
        Routed(metadata) ==
            IF can_handle(metadata)
            THEN Handled(embed_text(fs[file_path].text))
            ELSE Image(metadata, image_can_handle(metadata))
    IN  Routed(FileMetadata(fs, file_path))

\* StorageManager._get_file_hash: the name of a file's blobs, the digest of its path
get_file_hash(file_path) == <<"sha256">> \o file_path

\* a save_processing_result that leaves the blobs a file already has
save_processing_result_KeepFirst(store, metadata, res) ==
    IF get_file_hash(metadata.file_path) \in DOMAIN store THEN store
    ELSE Put(store, get_file_hash(metadata.file_path),
             [embeddings |-> res.embeddings,
              file_size_bytes |-> metadata.file_size_bytes,
              modified_time |-> isoformat(metadata.modified_time),
              embeddings_info |-> [num_chunks |-> res.num_chunks,
                                   embedding_dimension |-> res.embedding_dimension],
              processed |-> res.processed])

\* StorageManager.save_processing_result: the file's two blobs, overwritten
save_processing_result(store, metadata, res) ==
    Put(store, get_file_hash(metadata.file_path),
        [embeddings |-> res.embeddings,
         file_size_bytes |-> metadata.file_size_bytes,
         modified_time |-> isoformat(metadata.modified_time),
         embeddings_info |-> [num_chunks |-> res.num_chunks,
                              embedding_dimension |-> res.embedding_dimension],
         processed |-> res.processed])

\* what index_file reads and writes
RepoState == [files |-> files, catalog |-> catalog, blobs |-> blobs,
              sm |-> sm, dir |-> index_dir, now |-> now]

NoResult ==
    [file_path |-> <<>>, raised |-> "none", indexed |-> FALSE, processed |-> FALSE,
     reason |-> "none"]

\* the dictionaries index_file returns: the pipeline ran to its end, or the file
\* was unchanged; the default handler's result; and an exception
Returned(file_path, indexed, reason) ==
    [file_path |-> file_path, raised |-> "none", indexed |-> indexed,
     processed |-> indexed, reason |-> reason]
Unprocessed(file_path) ==
    [file_path |-> file_path, raised |-> "none", indexed |-> TRUE,
     processed |-> FALSE, reason |-> "none"]
Raised(file_path, exception) ==
    [file_path |-> file_path, raised |-> exception, indexed |-> FALSE,
     processed |-> FALSE, reason |-> "none"]

\* RepositoryManager.index_file(file_path, force): [state, result].  The row is
\* written before the blobs and the vector rows, and an exception of
\* add_file_embeddings is logged and dropped.
index_file(S, path, force) ==
    LET \* the vector rows: r is what add_file_embeddings left, raised or not
        Added(file_path, S2, r) ==
            [state |-> [S2 EXCEPT !.sm = r.sm, !.dir = r.dir],
             result |-> Returned(file_path, TRUE, "none")]
        \* the blobs are saved
        Stored(file_path, res, S2) ==
            IF Len(res.chunks) > 0
            THEN Added(file_path, S2,
                       add_file_embeddings(S2.sm, S2.dir, file_path,
                                           res.chunks, res.embeddings, FALSE))
            ELSE [state |-> S2, result |-> Returned(file_path, TRUE, "none")]
        \* the catalog row is written
        Entered(file_path, metadata, res, S1) ==
            IF ~res.processed
            THEN [state |-> S1, result |-> Unprocessed(file_path)]
            ELSE Stored(file_path, res,
                        [S1 EXCEPT !.blobs =
                            save_processing_result(S.blobs, metadata, res)])
        Processed(file_path, metadata, res) ==
            IF res.raised # "none"
            THEN [state |-> S, result |-> Raised(file_path, res.raised)]
            ELSE Entered(file_path, metadata, res,
                         [S EXCEPT !.catalog =
                                add_entry(S.catalog, metadata,
                                          compute_file_hash(S.files[file_path].text),
                                          res.num_chunks, res.embedding_dimension,
                                          S.now),
                                   !.now = S.now + 1])
        Found(file_path, metadata) ==
            IF ~force /\ ~has_changed(S.catalog, S.files, metadata)
            THEN [state |-> S, result |-> Returned(file_path, FALSE, "unchanged")]
            ELSE Processed(file_path, metadata, process_file(S.files, file_path))
        Resolved(file_path) ==
            IF file_path \notin DOMAIN S.files
            THEN [state |-> S, result |-> Raised(file_path, "FileNotFoundError")]
            ELSE Found(file_path, FileMetadata(S.files, file_path))
    IN  Resolved(Resolve(path))

(***************************************************************************)
(* Walking a directory.  index_directory lists the files below a           *)
(* directory, drops those under .filex and those the extension filter      *)
(* leaves out, sorts the rest by str(path) and calls index_file for each.  *)
(***************************************************************************)
\* the directories of the work tree
TreeDirs == {<<"w">>, <<"w", "sub">>, <<"w", ".filex">>}

\* the directory arguments: None, directories, a spelling with "..", a missing one
NoDirectory == <<"None">>
DirectoryArgs ==
    {NoDirectory, <<"w">>, <<"w", "sub">>, <<"w", "sub", "..">>,
     <<"w", ".filex">>, <<"w", "missing">>}

\* the extensions arguments: None, the list index_task passes, and a list of two
NoExtensions == {"None"}
DEFAULT_INDEXABLE_EXTENSIONS == {".txt", ".docx", ".png", ".jpg", ".jpeg"}
ExtensionArgs == {NoExtensions, DEFAULT_INDEXABLE_EXTENSIONS, {".TXT", ".bin"}}

\* e.lower() of an extension of the list
Lower(e) == IF e = ".TXT" THEN ".txt" ELSE e

\* Repository.get_work_tree_root(): the parent of the .filex directory
WORK_TREE_ROOT == <<"w">>

\* Path.parts
Parts(p) == {p[i] : i \in 1..Len(p)}

\* the files directory.rglob("*") and directory.iterdir() yield
ListedBy(directory, recursive, f) ==
    IF recursive
    THEN Len(f) > Len(directory) /\ SubSeq(f, 1, Len(directory)) = directory
    ELSE Parent(f) = directory

\* the paths of the tree in the order of their str(): "." < "P" < "a" < "b" < "d" < "s"
STR_ORDER == <<NOTES_TXT, P_PNG, A_TXT, B_TXT, D_BIN, C_TXT>>

\* a listing that does not leave out the files of the repository directory
files_to_index_WithRepoDir(fs, directory, recursive, extensions) ==
    SelectSeq(STR_ORDER,
              LAMBDA f : /\ f \in DOMAIN fs
                         /\ ListedBy(directory, recursive, f)
                         /\ \/ extensions = NoExtensions
                            \/ Suffix(f) \in {Lower(e) : e \in extensions})

\* files_to_index: the listing, filtered, then sorted(set(...), key=str)
files_to_index(fs, directory, recursive, extensions) ==
    SelectSeq(STR_ORDER,
              LAMBDA f : /\ f \in DOMAIN fs
                         /\ ListedBy(directory, recursive, f)
                         /\ REPO_DIR_NAME \notin Parts(f)
                         /\ \/ extensions = NoExtensions
                            \/ Suffix(f) \in {Lower(e) : e \in extensions})

NoStats ==
    [op |-> "none", directory |-> <<>>, recursive |-> FALSE, extensions |-> {},
     raised |-> "none", total_files |-> 0, indexed |-> 0, skipped |-> 0,
     errors |-> 0, error_messages |-> <<>>, attempted |-> <<>>]

\* the counters before the loop; attempted lists the calls of index_file, for the
\* model only
StartStats(directory, recursive, extensions, listed) ==
    [op |-> "walk", directory |-> directory, recursive |-> recursive,
     extensions |-> extensions,
     raised |-> "none", total_files |-> Len(listed), indexed |-> 0, skipped |-> 0,
     errors |-> 0, error_messages |-> <<>>, attempted |-> <<>>]

\* a loop body that logs an exception and does not count it
Counted_ErrorsLogged(st, file_path, res) ==
    IF res.raised # "none"
    THEN [st EXCEPT !.attempted = Append(@, file_path)]
    ELSE IF res.indexed
    THEN [st EXCEPT !.indexed = @ + 1, !.attempted = Append(@, file_path)]
    ELSE [st EXCEPT !.skipped = @ + 1, !.attempted = Append(@, file_path)]

\* the body of the loop after index_file(file_path) ended with res
Counted(st, file_path, res) ==
    IF res.raised # "none"
    THEN [st EXCEPT !.errors = @ + 1,
                    !.error_messages = Append(@, <<file_path, res.raised>>),
                    !.attempted = Append(@, file_path)]
    ELSE IF res.indexed
    THEN [st EXCEPT !.indexed = @ + 1, !.attempted = Append(@, file_path)]
    ELSE [st EXCEPT !.skipped = @ + 1, !.attempted = Append(@, file_path)]

\* for file_path in files_to_index: [state, stats]
RECURSIVE IndexEach(_, _, _, _)
IndexEach(S, rest, force, st) ==
    LET Continue(file_path, r) ==
            IndexEach(r.state, Tail(rest), force, Counted(st, file_path, r.result))
    IN  IF rest = <<>> THEN [state |-> S, stats |-> st]
        ELSE Continue(Head(rest), index_file(S, Head(rest), force))

\* RepositoryManager.index_directory(directory, recursive, extensions, force):
\* [state, stats]
index_directory(S, directory_in, recursive, extensions, force) ==
    LET Listed(directory, listed) ==
            IndexEach(S, listed, force,
                      StartStats(directory, recursive, extensions, listed))
        Resolved(directory) ==
            IF directory \notin TreeDirs
            THEN [state |-> S,
                  stats |-> [StartStats(directory, recursive, extensions, <<>>)
                                EXCEPT !.raised = "ValueError"]]
            ELSE Listed(directory,
                        files_to_index(S.files, directory, recursive, extensions))
    IN  Resolved(Resolve(IF directory_in = NoDirectory THEN WORK_TREE_ROOT
                         ELSE directory_in))

\* a call of index_directory
IndexDirectory(directory, recursive, extensions, force) ==
    /\ now < MaxClock
    /\ \E r \in {index_directory(RepoState, directory, recursive, extensions, force)} :
          /\ files' = r.state.files
          /\ catalog' = r.state.catalog
          /\ blobs' = r.state.blobs
          /\ sm' = r.state.sm
          /\ index_dir' = r.state.dir
          /\ now' = r.state.now
          /\ stats' = r.stats
    /\ result' = NoResult
    /\ UNCHANGED call

\* a call of index_file
IndexFile(path, force) ==
    /\ now < MaxClock
    /\ \E r \in {index_file(RepoState, path, force)} :
          /\ files' = r.state.files
          /\ catalog' = r.state.catalog
          /\ blobs' = r.state.blobs
          /\ sm' = r.state.sm
          /\ index_dir' = r.state.dir
          /\ now' = r.state.now
          /\ result' = r.result
    /\ stats' = NoStats
    /\ UNCHANGED call

\* the user saves a file of the work tree
WriteFile(file_path, text, mtime) ==
    /\ files' = [files EXCEPT ![file_path] = [text |-> text, mtime |-> mtime]]
    /\ result' = NoResult
    /\ stats' = NoStats
    /\ UNCHANGED <<catalog, blobs, now, sm, index_dir, call>>

\* the files the user rewrites; the others keep their first content
WrittenFiles == {A_TXT}

\* index_file when the blob store cannot be written (np.save or open raises
\* OSError in save_processing_result): a run that comes that far has written the
\* catalog row, writes no blob, does not reach the vector index and raises
index_file_unwritable(S, path, force) ==
    LET Failed(r) ==
            IF r.result.raised = "none" /\ r.result.processed
            THEN [state |-> [S EXCEPT !.catalog = r.state.catalog,
                                      !.now = r.state.now],
                  result |-> Raised(r.result.file_path, "OSError")]
            ELSE r
    IN  Failed(index_file(S, path, force))

\* a call of index_file while the blob store cannot be written
IndexFileUnwritable(path, force) ==
    /\ now < MaxClock
    /\ \E r \in {index_file_unwritable(RepoState, path, force)} :
          /\ files' = r.state.files
          /\ catalog' = r.state.catalog
          /\ blobs' = r.state.blobs
          /\ sm' = r.state.sm
          /\ index_dir' = r.state.dir
          /\ now' = r.state.now
          /\ result' = r.result
    /\ stats' = NoStats
    /\ UNCHANGED call

(***************************************************************************)
(* The chunkers of chunkers.py on their own: a text is read, and a chunker *)
(* built with some (chunk_size, overlap) or (target, max) is run on it.    *)
(***************************************************************************)
MaxTextLen == 4     \* the texts are all strings of at most MaxTextLen characters
MaxChunkSize == 3   \* chunk_size and target_chunk_size range over 1..MaxChunkSize

ChunkAlphabet == {"a", " ", "."}
ShortTexts == UNION {[1..n -> ChunkAlphabet] : n \in 0..MaxTextLen}

\* texts of three sentences, each ended by a full stop and a space
SampleSentences == {<<"a">>, <<"a", "a">>, <<"a", " ", "a">>}
SentenceTexts ==
    {s1 \o <<".", " ">> \o s2 \o <<".", " ">> \o s3 :
        s1 \in SampleSentences, s2 \in SampleSentences, s3 \in SampleSentences}
ChunkTexts == ShortTexts \cup SentenceTexts

\* the arguments FixedSizeChunker.__init__ accepts
FixedParams == {<<cs, ov>> \in (1..MaxChunkSize) \X (0..MaxChunkSize) : ov < cs}

\* the arguments SentenceAwareChunker.__init__ accepts; None is the default
SentenceParams ==
    {<<t, m>> \in (1..MaxChunkSize) \X ({None} \cup 1..(MaxChunkSize + 1)) :
        m = None \/ (m >= t /\ m <= t + 1)}

\* SentenceAwareChunker.__init__: max_chunk_size or (target_chunk_size * 2)
max_chunk_size_of(target_chunk_size, max_chunk_size) ==
    IF max_chunk_size = None THEN target_chunk_size * 2 ELSE max_chunk_size

\* a loop that keeps every window, the blank ones too
RECURSIVE FixedWindows_KeepBlank(_, _, _, _)
FixedWindows_KeepBlank(text, chunk_size, step, start) ==
    IF start >= Len(text) THEN <<>>
    ELSE <<SubSeq(text, start + 1, Min(start + chunk_size, Len(text)))>>
         \o FixedWindows_KeepBlank(text, chunk_size, step, start + step)

\* FixedSizeChunker.chunk, the while loop from offset start: the windows kept
RECURSIVE FixedWindows(_, _, _, _)
FixedWindows(text, chunk_size, step, start) ==
    IF start >= Len(text) THEN <<>>
    ELSE (IF Strip(SubSeq(text, start + 1, Min(start + chunk_size, Len(text)))) # <<>>
          THEN <<SubSeq(text, start + 1, Min(start + chunk_size, Len(text)))>>
          ELSE <<>>)
         \o FixedWindows(text, chunk_size, step, start + step)

\* the results a chunker may give for an empty list of kept chunks
OrNothing(chunks, text) == chunks
OrWholeText(chunks, text) == IF chunks # <<>> THEN chunks ELSE <<text>>

\* FixedSizeChunker(chunk_size, overlap).chunk(text)
FixedSizeChunker_chunk(chunk_size, overlap, text) ==
    IF text = <<>> THEN <<>>
    ELSE OrWholeText(FixedWindows(text, chunk_size, chunk_size - overlap, 0), text)

\* max(a, b) and ceiling division, as the estimates compute them
Max(a, b) == IF a > b THEN a ELSE b
CeilDiv(n, step) == (n + step - 1) \div step

\* FixedSizeChunker(chunk_size, overlap).get_chunk_count_estimate(text_length)
FixedSizeChunker_estimate(chunk_size, overlap, text_length) ==
    IF text_length = 0 THEN 1
    ELSE Max(1, CeilDiv(text_length, chunk_size - overlap))

\* the character classes of the sentence_endings pattern
IsEnding(c) == c \in {".", "!", "?"}
IsSpace(c) == c \in {" ", "\n"}

\* the first index from i on whose character is not of the class, Len + 1 if none
RECURSIVE EndingRunEnd(_, _)
EndingRunEnd(text, i) ==
    IF i <= Len(text) /\ IsEnding(text[i]) THEN EndingRunEnd(text, i + 1) ELSE i
RECURSIVE SpaceRunEnd(_, _)
SpaceRunEnd(text, i) ==
    IF i <= Len(text) /\ IsSpace(text[i]) THEN SpaceRunEnd(text, i + 1) ELSE i

\* where a match of [.!?]+[\s\n]+|[.!?]+$ that begins at i ends (the index after
\* it), 0 if none begins there
MatchEnd(text, i) ==
    IF ~IsEnding(text[i]) THEN 0
    ELSE IF EndingRunEnd(text, i) > Len(text) THEN Len(text) + 1
    ELSE IF IsSpace(text[EndingRunEnd(text, i)])
         THEN SpaceRunEnd(text, EndingRunEnd(text, i))
         ELSE 0

\* sentence_endings.split(text): the pieces between the matches, scanning from i
\* with the current piece begun at from
RECURSIVE SplitFrom(_, _, _)
SplitFrom(text, i, from) ==
    IF i > Len(text) THEN <<SubSeq(text, from, Len(text))>>
    ELSE IF MatchEnd(text, i) # 0
         THEN <<SubSeq(text, from, i - 1)>>
                  \o SplitFrom(text, MatchEnd(text, i), MatchEnd(text, i))
         ELSE SplitFrom(text, i + 1, from)

\* s.strip()
RECURSIVE StripEnds(_)
StripEnds(s) ==
    IF s = <<>> THEN <<>>
    ELSE IF IsSpace(s[1]) THEN StripEnds(Tail(s))
    ELSE IF IsSpace(s[Len(s)]) THEN StripEnds(SubSeq(s, 1, Len(s) - 1))
    ELSE s

\* SentenceAwareChunker._split_into_sentences
RECURSIVE StripAll(_)
StripAll(pieces) ==
    IF pieces = <<>> THEN <<>>
    ELSE (IF StripEnds(Head(pieces)) # <<>> THEN <<StripEnds(Head(pieces))>> ELSE <<>>)
         \o StripAll(Tail(pieces))
split_into_sentences(text) == StripAll(SplitFrom(text, 1, 1))

\* the tests that close the current chunk before a sentence is taken
ClosesChunk(current_size, sentence_size, target, max, current_chunk) ==
    \/ current_size + sentence_size > max /\ current_chunk # <<>>
    \/ current_size + sentence_size > target /\ current_chunk # <<>>

\* SentenceAwareChunker.chunk, the for loop: the lists of sentences that become
\* the chunks
RECURSIVE Accumulate(_, _, _, _, _)
Accumulate(sentences, target, max, current_chunk, current_size) ==
    IF sentences = <<>>
    THEN IF current_chunk # <<>> THEN <<current_chunk>> ELSE <<>>
    ELSE IF ClosesChunk(current_size, Len(Head(sentences)), target, max, current_chunk)
         THEN <<current_chunk>>
                  \o Accumulate(Tail(sentences), target, max,
                                <<Head(sentences)>>, Len(Head(sentences)))
         ELSE Accumulate(Tail(sentences), target, max,
                         Append(current_chunk, Head(sentences)),
                         current_size + Len(Head(sentences)) + 1)

\* ' '.join(current_chunk)
RECURSIVE Join(_)
Join(current_chunk) ==
    IF current_chunk = <<>> THEN <<>>
    ELSE IF Len(current_chunk) = 1 THEN Head(current_chunk)
    ELSE Head(current_chunk) \o <<" ">> \o Join(Tail(current_chunk))

\* the sentences of each chunk SentenceAwareChunker(target, max).chunk(text) makes
SentenceGroups(target, max, text) ==
    IF text = <<>> THEN <<>>
    ELSE Accumulate(split_into_sentences(text), target, max, <<>>, 0)

\* SentenceAwareChunker(target, max).chunk(text)
SentenceAwareChunker_chunk(target, max, text) ==
    IF text = <<>> THEN <<>>
    ELSE OrWholeText([k \in 1..Len(SentenceGroups(target, max, text)) |->
                          Join(SentenceGroups(target, max, text)[k])], text)

\* SentenceAwareChunker(target, max).get_chunk_count_estimate(text_length)
SentenceAwareChunker_estimate(target, text_length) ==
    IF text_length = 0 THEN 1 ELSE Max(1, CeilDiv(text_length, target))

\* no chunker has run on the text
NoChunks ==
    [chunker |-> "none", size |-> 0, overlap |-> 0, max |-> 0,
     chunks |-> <<>>, groups |-> <<>>]

\* a text arrives
ReadText(t) ==
    /\ input_text' = t
    /\ chunked' = NoChunks

\* FixedSizeChunker(chunk_size, overlap).chunk(text)
FixedChunk(chunk_size, overlap) ==
    /\ chunked' = [chunker |-> "fixed", size |-> chunk_size, overlap |-> overlap,
                   max |-> chunk_size,
                   chunks |-> FixedSizeChunker_chunk(chunk_size, overlap, input_text),
                   groups |-> <<>>]
    /\ UNCHANGED input_text

\* SentenceAwareChunker(target, max).chunk(text)
SentenceChunk(target, max) ==
    /\ chunked' = [chunker |-> "sentence", size |-> target, overlap |-> 0,
                   max |-> max_chunk_size_of(target, max),
                   chunks |-> SentenceAwareChunker_chunk(
                                  target, max_chunk_size_of(target, max), input_text),
                   groups |-> SentenceGroups(
                                  target, max_chunk_size_of(target, max), input_text)]
    /\ UNCHANGED input_text

(***************************************************************************)
(* Requests for one repository, from the RepositoryManager each builds to  *)
(* the end of its job.  index_files builds the manager, whose              *)
(* SearchManager loads the index files, before it takes state.lock for the *)
(* admission test; the job later indexes with that manager.                *)
(***************************************************************************)
MaxRequests == 3    \* POST /api/index requests for the repository

HandoffRequests == 1..MaxRequests
HANDOFF_REPO == <<"w", REPO_DIR_NAME>>

\* the file request k asks to index
RequestFile(k) == <<A_TXT, B_TXT, C_TXT>>[((k - 1) % 3) + 1]

NoManager == [pc |-> "idle", m |-> EmptyManager]

\* index_files up to state.get_repo_manager: RepositoryManager.__init__ builds a
\* SearchManager, which loads the index files as they are now; a client that
\* was answered 409 sends the request again.  index_files is a coroutine without
\* an await, so the event loop runs one call of it at a time, while the jobs run
\* on the threads of the pool
request_arrives(k) ==
    /\ requests[k].pc \in {"idle", "refused"}
    /\ \A j \in HandoffRequests : requests[j].pc # "loaded"
    /\ requests' = [requests EXCEPT
                       ![k] = [pc |-> "loaded", m |-> load_search_data(index_dir, {})]]
    /\ UNCHANGED <<indexing_tasks, index_dir>>

\* index_files under state.lock: the admission test, the new record, the submit
request_admission(k) ==
    /\ requests[k].pc = "loaded"
    /\ IF AdmissionRefused(indexing_tasks, HANDOFF_REPO)
       THEN /\ requests' = [requests EXCEPT ![k].pc = "refused"]
            /\ UNCHANGED indexing_tasks
       ELSE /\ indexing_tasks' = Put(indexing_tasks, HANDOFF_REPO, NewTask)
            /\ requests' = [requests EXCEPT ![k].pc = "queued"]
    /\ UNCHANGED index_dir

\* index_task of request k, first step
job_begins(k) ==
    /\ requests[k].pc = "queued"
    /\ indexing_tasks' = [indexing_tasks EXCEPT ![HANDOFF_REPO].status = "indexing",
                                                ![HANDOFF_REPO].message = "Indexing files..."]
    /\ requests' = [requests EXCEPT ![k].pc = "run"]
    /\ UNCHANGED index_dir

\* index_task of request k: repo_manager.index_file, as far as the vector index
\* goes: the closure's manager adds the file's rows and saves the index files
job_indexes(k) ==
    /\ requests[k].pc = "run"
    /\ \E r \in {add_file_embeddings(requests[k].m, index_dir, RequestFile(k),
                                    embed_text(files[RequestFile(k)].text).chunks,
                                    embed_text(files[RequestFile(k)].text).embeddings,
                                    FALSE)} :
          /\ requests' = [requests EXCEPT ![k] = [pc |-> "ran", m |-> r.sm]]
          /\ index_dir' = r.dir
    /\ UNCHANGED indexing_tasks

\* index_task of request k: the counters and the final status
job_completes(k) ==
    /\ requests[k].pc = "ran"
    /\ indexing_tasks' = [indexing_tasks EXCEPT
                             ![HANDOFF_REPO].indexed = 1,
                             ![HANDOFF_REPO].total = 1,
                             ![HANDOFF_REPO].status = "completed",
                             ![HANDOFF_REPO].message = "Indexing completed successfully"]
    /\ requests' = [requests EXCEPT ![k].pc = "done"]
    /\ UNCHANGED index_dir

(***************************************************************************)
(* The specifications.                                                     *)
(***************************************************************************)
RepoIds == {Append(d, REPO_DIR_NAME) : d \in ExistingDirs}

\* nothing submitted, an empty vector index, a work tree of one-chunk files and an
\* empty catalog
Init ==
    /\ has_filex = {}
    /\ indexing_tasks = <<>>
    /\ jobs = <<>>
    /\ response = NoResponse
    /\ sm = EmptyManager
    /\ index_dir = EmptyIndexDir
    /\ call = NoCall
    /\ files = [f \in TreeFiles |-> [text |-> <<"a">>, mtime |-> 1]]
    /\ catalog = <<>>
    /\ blobs = <<>>
    /\ now = 0
    /\ result = NoResult
    /\ stats = NoStats
    /\ queue = <<>>
    /\ wpc = 0
    /\ torn = {}
    /\ reader = NoReader
    /\ stops = 0
    /\ input_text = <<"a">>
    /\ chunked = NoChunks
    /\ requests = [k \in HandoffRequests |-> NoManager]

NextTasks ==
    \/ \E p \in RequestPaths, t \in Targets :
          index_files(p, t) /\ UNCHANGED <<indexVars, repoVars, flushVars, chunkVars, handoffVars>>
    \/ \E i \in 1..Len(jobs) : index_task_begin(i) /\ UNCHANGED <<indexVars, repoVars, flushVars, chunkVars, handoffVars>>
    \/ \E i \in 1..Len(jobs) : index_task_run(i) /\ UNCHANGED <<indexVars, repoVars, flushVars, chunkVars, handoffVars>>
    \/ \E i \in 1..Len(jobs) : index_task_record(i) /\ UNCHANGED <<indexVars, repoVars, flushVars, chunkVars, handoffVars>>
    \/ \E i \in 1..Len(jobs) : index_task_complete(i) /\ UNCHANGED <<indexVars, repoVars, flushVars, chunkVars, handoffVars>>
    \/ \E i \in 1..Len(jobs) : index_task_except(i) /\ UNCHANGED <<indexVars, repoVars, flushVars, chunkVars, handoffVars>>
    \/ \E id \in RepoIds : clear_progress(id) /\ UNCHANGED <<indexVars, repoVars, flushVars, chunkVars, handoffVars>>

SpecTasks == Init /\ [][NextTasks]_vars

\* the steps of the closure at position i of the executor
WorkerStep(i) ==
    /\ i <= Len(jobs)
    /\ \/ index_task_begin(i) \/ index_task_run(i) \/ index_task_record(i)
       \/ index_task_complete(i) \/ index_task_except(i)
    /\ UNCHANGED <<indexVars, repoVars, flushVars, chunkVars, handoffVars>>

\* the task table with a pool that keeps running the closures it was handed: no
\* shutdown, every closure is scheduled and every indexing run returns or raises
SpecTasksLive ==
    Init /\ [][NextTasks]_vars /\ \A i \in 1..MaxJobs : WF_vars(WorkerStep(i))

NextIndex ==
    \/ \E p \in CallerPaths, a \in AddArguments :
          AddFileEmbeddings(p, a[1], a[2]) /\ UNCHANGED <<taskVars, repoVars, flushVars, chunkVars, handoffVars>>
    \/ \E p \in CallerPaths, i \in IsImageArgs :
          RemoveFileEmbeddings(p, i) /\ UNCHANGED <<taskVars, repoVars, flushVars, chunkVars, handoffVars>>
    \/ \E q \in TextQueries, k \in TopKs, iq \in ImageQueries :
          Search(q, k, iq) /\ UNCHANGED <<taskVars, repoVars, flushVars, chunkVars, handoffVars>>

SpecIndex == Init /\ [][NextIndex]_vars

NextRepo ==
    \/ \E p \in IndexPaths, force \in BOOLEAN :
          IndexFile(p, force) /\ UNCHANGED <<taskVars, flushVars, chunkVars, handoffVars>>
    \/ \E f \in WrittenFiles, t \in FileTexts, m \in MTimes :
          WriteFile(f, t, m) /\ UNCHANGED <<taskVars, flushVars, chunkVars, handoffVars>>

SpecRepo == Init /\ [][NextRepo]_vars

NextRepoFault ==
    \/ \E p \in IndexPaths, force \in BOOLEAN :
          IndexFile(p, force) /\ UNCHANGED <<taskVars, flushVars, chunkVars, handoffVars>>
    \/ \E p \in IndexPaths, force \in BOOLEAN :
          IndexFileUnwritable(p, force) /\ UNCHANGED <<taskVars, flushVars, chunkVars, handoffVars>>
    \/ \E f \in WrittenFiles, t \in FileTexts, m \in MTimes :
          WriteFile(f, t, m) /\ UNCHANGED <<taskVars, flushVars, chunkVars, handoffVars>>

SpecRepoFault == Init /\ [][NextRepoFault]_vars

NextWalk ==
    \/ \E d \in DirectoryArgs, r \in BOOLEAN, e \in ExtensionArgs, force \in BOOLEAN :
          IndexDirectory(d, r, e, force) /\ UNCHANGED <<taskVars, flushVars, chunkVars, handoffVars>>
    \/ \E f \in WrittenFiles, t \in FileTexts, m \in MTimes :
          WriteFile(f, t, m) /\ UNCHANGED <<taskVars, flushVars, chunkVars, handoffVars>>

SpecWalk == Init /\ [][NextWalk]_vars

NextFlush ==
    \/ \E p \in FlushPaths, a \in FlushArguments :
          StartAdd(p, a[1], a[2]) /\ UNCHANGED <<taskVars, repoVars, chunkVars, handoffVars>>
    \/ \E p \in FlushPaths, i \in IsImageArgs :
          StartRemove(p, i) /\ UNCHANGED <<taskVars, repoVars, chunkVars, handoffVars>>
    \/ FlushStep /\ UNCHANGED <<taskVars, repoVars, chunkVars, handoffVars>>
    \/ StartLoad /\ UNCHANGED <<taskVars, repoVars, chunkVars, handoffVars>>
    \/ LoadStep /\ UNCHANGED <<taskVars, repoVars, chunkVars, handoffVars>>
    \/ Stop /\ UNCHANGED <<taskVars, repoVars, chunkVars, handoffVars>>

SpecFlush == Init /\ [][NextFlush]_vars

NextChunk ==
    \/ \E t \in ChunkTexts :
          ReadText(t) /\ UNCHANGED <<taskVars, indexVars, repoVars, flushVars, handoffVars>>
    \/ \E p \in FixedParams :
          FixedChunk(p[1], p[2]) /\ UNCHANGED <<taskVars, indexVars, repoVars, flushVars, handoffVars>>
    \/ \E p \in SentenceParams :
          SentenceChunk(p[1], p[2]) /\ UNCHANGED <<taskVars, indexVars, repoVars, flushVars, handoffVars>>

SpecChunk == Init /\ [][NextChunk]_vars

NextHandoff ==
    \/ \E k \in HandoffRequests : request_arrives(k) /\ UNCHANGED <<has_filex, jobs, response, sm, call, repoVars, flushVars, chunkVars>>
    \/ \E k \in HandoffRequests : request_admission(k) /\ UNCHANGED <<has_filex, jobs, response, sm, call, repoVars, flushVars, chunkVars>>
    \/ \E k \in HandoffRequests : job_begins(k) /\ UNCHANGED <<has_filex, jobs, response, sm, call, repoVars, flushVars, chunkVars>>
    \/ \E k \in HandoffRequests : job_indexes(k) /\ UNCHANGED <<has_filex, jobs, response, sm, call, repoVars, flushVars, chunkVars>>
    \/ \E k \in HandoffRequests : job_completes(k) /\ UNCHANGED <<has_filex, jobs, response, sm, call, repoVars, flushVars, chunkVars>>

SpecHandoff == Init /\ [][NextHandoff]_vars

(***************************************************************************)
(* Properties of the indexing controller.                                  *)
(***************************************************************************)

\* C1: for every repository key at most one index_task closure is alive, and
\* while it is alive the key's record is in status starting or indexing; a
\* POST /api/index for an existing directory whose .filex already has such a
\* record is answered 409 under that key and changes neither the task table
\* nor the closures handed to the executor, and is admitted (200, one more
\* closure) otherwise.  The key is the .filex found from the resolved
\* repo_path, so requests that locate the same .filex meet under one key.
C1_OneJobPerRepository ==
    /\ [](\A i, j \in 1..Len(jobs) : jobs[i].repo_id = jobs[j].repo_id => i = j)
    /\ [](\A i \in 1..Len(jobs) :
              /\ jobs[i].repo_id \in DOMAIN indexing_tasks
              /\ indexing_tasks[jobs[i].repo_id].status \in ActiveStatus)
    /\ [][\A p \in RequestPaths :
              (response'.request = Post(p) /\ Resolve(p) \in ExistingDirs) =>
                  LET id == Repository(has_filex, p).repo_path IN
                  IF id \in DOMAIN indexing_tasks
                     /\ indexing_tasks[id].status \in ActiveStatus
                  THEN /\ response'.code = 409
                       /\ response'.task_id = id
                       /\ UNCHANGED <<indexing_tasks, jobs>>
                  ELSE /\ response'.code = 200
                       /\ Len(jobs') = Len(jobs) + 1
                       /\ jobs'[Len(jobs')].repo_id = id]_vars

\* a request for w/sub was refused under the key of w's .filex while that
\* repository's closure was alive
C1_Witness ==
    /\ response.code = 409
    /\ response.request = Post(<<"w", "sub">>)
    /\ response.task_id = <<"w", REPO_DIR_NAME>>
    /\ \E i \in 1..Len(jobs) : jobs[i].repo_id = response.task_id

(***************************************************************************)
(* Properties of the vector index.  A metadata record is read with the     *)
(* matrix row at its ordinal.                                              *)
(***************************************************************************)
Rows(E) == IF E.none THEN 0 ELSE Len(E.rows)
RowWidth(row) == IF row = NoneRow THEN 1 ELSE Len(row)
RowAt(E, i) == IF i <= Rows(E) THEN E.rows[i] ELSE NoneRow

Paired(E, M) == [i \in 1..Len(M) |-> [meta |-> M[i], vector |-> RowAt(E, i)]]

NotOf(M, f) == {i \in 1..Len(M) : M[i].file_path # f}

\* the records of the files other than f with their vectors, in index order
Others(E, M, f) ==
    LET keep == Ascending(NotOf(M, f)) IN
    [k \in 1..Len(keep) |-> Paired(E, M)[keep[k]]]

Consistent(E, M) ==
    /\ Rows(E) = Len(M)
    /\ \A i \in 1..Rows(E) : RowWidth(E.rows[i]) = E.width

\* C3: in every state reached by add_file_embeddings and remove_file_embeddings
\* calls, failed ones included, each kind's matrix has as many rows as its
\* metadata list (an absent matrix has none) and every row has the matrix's width.
C3_RowsAndWidthsAgree ==
    /\ Consistent(sm.embeddings, sm.metadata)
    /\ Consistent(sm.image_embeddings, sm.image_metadata)

\* what a successful add_file_embeddings(f, C, V) must leave behind
AddedLast(before, after, f, C, V) ==
    LET image == SelectsImage(f, FALSE)
        E0 == IF image THEN before.image_embeddings ELSE before.embeddings
        M0 == IF image THEN before.image_metadata ELSE before.metadata
        E1 == IF image THEN after.image_embeddings ELSE after.embeddings
        M1 == IF image THEN after.image_metadata ELSE after.metadata
        base == Len(M1) - Len(C)
    IN  /\ base >= 0
        /\ IndicesOf(M1, f) = (base + 1)..Len(M1)
        /\ \A i \in 1..Len(C) :
              /\ M1[base + i].chunk_index = i - 1
              /\ M1[base + i].chunk_text = C[i]
              /\ RowAt(E1, base + i) = V.rows[i]
        /\ Others(E1, M1, f) = Others(E0, M0, f)
        /\ IF image
           THEN after.embeddings = before.embeddings
                /\ after.metadata = before.metadata
           ELSE after.image_embeddings = before.image_embeddings
                /\ after.image_metadata = before.image_metadata

\* C4: from every reachable index state, a successful add_file_embeddings(f, C, V)
\* leaves exactly len(C) records of f in the selected kind, as its last rows,
\* with chunk_index 0..len(C)-1, chunk i paired with row i of V, and keeps the
\* records of every other file with their vectors in order and the other kind whole.
C4_AddAppendsFileRows ==
    \A p \in CallerPaths, a \in AddArguments :
        LET r == add_file_embeddings(sm, index_dir, p, a[1], a[2], FALSE) IN
        r.raised = "none" => AddedLast(sm, r.sm, Resolve(p), a[1], a[2])

\* C5: from every reachable index state, when add_file_embeddings(f, C, V)
\* succeeds, the same call made again at once succeeds too and leaves the
\* matrices and metadata lists the first call left.
C5_AddTwiceIsAddOnce ==
    \A p \in CallerPaths, a \in AddArguments :
        LET r1 == add_file_embeddings(sm, index_dir, p, a[1], a[2], FALSE) IN
        r1.raised = "none" =>
            LET r2 == add_file_embeddings(r1.sm, r1.dir, p, a[1], a[2], FALSE) IN
            r2.raised = "none" /\ r2.sm = r1.sm

\* what remove_file_embeddings(f, kind) must leave of one kind it selects
Removed(E0, M0, E1, M1, f) ==
    /\ IndicesOf(M1, f) = {}
    /\ Paired(E1, M1) = Others(E0, M0, f)

\* C8: from every reachable index state, remove_file_embeddings(f, kind)
\* returns normally, leaves in each selected kind (both when kind is None) no
\* record of f and the records of the other files with the vectors at their
\* ordinals, in order, leaves a kind it does not select as it was, and when no
\* record of a selected kind matches leaves memory and the persisted files as
\* they were.
C8_RemoveDeletesOnlyFileRows ==
    \A p \in CallerPaths, k \in IsImageArgs :
        LET f == Resolve(p)
            r == remove_file_embeddings(sm, index_dir, p, k)
            text == k \in {"None", "False"}
            image == k \in {"None", "True"}
            hit == \/ text /\ IndicesOf(sm.metadata, f) # {}
                   \/ image /\ IndicesOf(sm.image_metadata, f) # {}
        IN  /\ r.raised = "none"
            /\ IF text
               THEN Removed(sm.embeddings, sm.metadata,
                            r.sm.embeddings, r.sm.metadata, f)
               ELSE /\ r.sm.embeddings = sm.embeddings
                    /\ r.sm.metadata = sm.metadata
            /\ IF image
               THEN Removed(sm.image_embeddings, sm.image_metadata,
                            r.sm.image_embeddings, r.sm.image_metadata, f)
               ELSE /\ r.sm.image_embeddings = sm.image_embeddings
                    /\ r.sm.image_metadata = sm.image_metadata
            /\ ~hit => r.sm = sm /\ r.dir = index_dir

\* a removal deleted the rows of one file and kept those of another
C8_Witness ==
    /\ call.op = "remove" /\ call.raised = "none" /\ call.n > 0
    /\ Len(sm.metadata) = 2
    /\ Consistent(sm.embeddings, sm.metadata)
    /\ sm.embeddings.rows[1] # sm.embeddings.rows[2]

\* the rows a search scores: those of each kind that is swept
ScoredRows(m, q, iq) ==
    {<<"text", i>> : i \in IF Scored(m.embeddings, q)
                           THEN 1..Len(m.metadata) ELSE {}}
    \cup {<<"image", i>> : i \in IF Scored(m.image_embeddings, iq)
                                 THEN 1..Len(m.image_metadata) ELSE {}}

\* the similarity of a scored row
SimilarityOf(m, q, iq, x) ==
    IF x[1] = "text" THEN Score(RowAt(m.embeddings, x[2]), q)
    ELSE Score(RowAt(m.image_embeddings, x[2]), iq)

\* scan order: text rows before image rows, each kind in index order
ScanBefore(x, y) ==
    \/ x[1] = "text" /\ y[1] = "image"
    \/ x[1] = y[1] /\ x[2] < y[2]

\* the results are the top_k best scored rows, best first, ties in scan order
Ranked(m, q, top_k, iq, results) ==
    LET S == ScoredRows(m, q, iq)
        at == [i \in 1..Len(results) |-> <<results[i].kind, results[i].row>>]
        sim(x) == SimilarityOf(m, q, iq, x)
    IN  /\ Len(results) = Min(top_k, Cardinality(S))
        /\ \A i \in 1..Len(results) :
              /\ at[i] \in S
              /\ results[i].similarity_score = sim(at[i])
              /\ LET M == IF at[i][1] = "text" THEN m.metadata ELSE m.image_metadata
                 IN  /\ results[i].file_path = M[at[i][2]].file_path
                     /\ results[i].chunk_index = M[at[i][2]].chunk_index
                     /\ results[i].chunk_text = M[at[i][2]].chunk_text
        /\ \A i, j \in 1..Len(results) :
              i < j => /\ ~SimLess(sim(at[i]), sim(at[j]))
                       /\ SimEqual(sim(at[i]), sim(at[j])) => ScanBefore(at[i], at[j])
        /\ \A x \in S \ {at[i] : i \in 1..Len(results)} :
              \A i \in 1..Len(results) :
                  /\ ~SimLess(sim(at[i]), sim(x))
                  /\ SimEqual(sim(at[i]), sim(x)) => ScanBefore(at[i], x)

\* C9: in every reachable index state, for every query and top_k > 0, search
\* returns min(top_k, number of scored rows) results: the scored rows of both
\* kinds with the highest similarities, in non-increasing order of similarity,
\* rows of equal similarity in scan order.
C9_SearchReturnsTopK ==
    \A q \in TextQueries, k \in 1..MaxTopK, iq \in ImageQueries :
        LET r == search(sm, q, k, iq) IN
        r.raised = "none" /\ Ranked(sm, q, k, iq, r.results)

\* the ranking alone: what search returns whenever it returns
SearchRanksWhenItReturns ==
    \A q \in TextQueries, k \in 1..MaxTopK, iq \in ImageQueries :
        LET r == search(sm, q, k, iq) IN
        r.raised = "none" => Ranked(sm, q, k, iq, r.results)

\* the results that mention f
Mentions(results, f) == {i \in 1..Len(results) : results[i].file_path = f}

\* the records of f in the index, and the kind a file's records are added to
RecordsOf(m, f) ==
    Cardinality(IndicesOf(m.metadata, f)) + Cardinality(IndicesOf(m.image_metadata, f))

KindScored(m, f, q, iq) ==
    IF SelectsImage(f, FALSE) THEN Scored(m.image_embeddings, iq)
    ELSE Scored(m.embeddings, q)

\* a successful add_file_embeddings(f, C, V) leaves exactly len(C) records of f
AddLeavesRecords ==
    \A p \in CallerPaths, a \in AddArguments :
        LET r == add_file_embeddings(sm, index_dir, p, a[1], a[2], FALSE) IN
        r.raised = "none" => RecordsOf(r.sm, Resolve(p)) = Len(a[1])

RowDescribesFile(f) ==
    /\ f \in DOMAIN catalog
    /\ catalog[f].file_hash = compute_file_hash(files[f].text)
    /\ catalog[f].file_size = Len(files[f].text)
    /\ fromisoformat(catalog[f].modified_time) = files[f].mtime

\* C2: whenever a file has the bytes, size and mtime its catalog row recorded
\* when index_file indexed it, index_file(f) without force returns
\* indexed=false as unchanged and leaves the catalog (indexed_time included),
\* the blobs, both vector indices and their persisted files as they were.
C2_UnchangedFileIsSkipped ==
    \A p \in IndexPaths :
        LET f == Resolve(p) IN
        (f \in DOMAIN files /\ RowDescribesFile(f)) =>
            LET r == index_file(RepoState, p, FALSE) IN
            /\ r.result = Returned(f, FALSE, "unchanged")
            /\ r.state = RepoState

\* a call on an indexed, unchanged a.txt was skipped; another file is indexed too
C2_Witness ==
    /\ result = Returned(A_TXT, FALSE, "unchanged")
    /\ RowDescribesFile(A_TXT)
    /\ IndicesOf(sm.metadata, A_TXT) # {}
    /\ B_TXT \in DOMAIN catalog

\* the text index holds for f exactly the chunks of text, in order, with their vectors
HoldsChunksOf(m, f, text) ==
    LET own == Ascending(IndicesOf(m.metadata, f)) IN
    /\ Len(own) = Len(chunk(text))
    /\ \A i \in 1..Len(own) :
          /\ m.metadata[own[i]].chunk_index = i - 1
          /\ m.metadata[own[i]].chunk_text = chunk(text)[i]
          /\ RowAt(m.embeddings, own[i]) = embed(chunk(text)[i])

\* C6: whenever a text file that has a catalog row holds other bytes than the
\* row recorded (and is not empty), index_file(f) returns indexed=true, sets
\* the row's hash to the SHA-256 of the new bytes, and leaves in the text index
\* exactly the rows of the new chunks for f, also when f is the only file there.
C6_OverwrittenFileIsReindexed ==
    \A f \in WorkFiles :
        (/\ f \in DOMAIN catalog
         /\ catalog[f].file_hash # compute_file_hash(files[f].text)
         /\ files[f].text # <<>>) =>
            LET r == index_file(RepoState, f, FALSE) IN
            /\ r.result = Returned(f, TRUE, "none")
            /\ r.state.catalog[f].file_hash = compute_file_hash(files[f].text)
            /\ HoldsChunksOf(r.state.sm, f, files[f].text)

Contiguous(I) == \A i, j \in I : \A k \in i..j : k \in I

\* C7: in every state reached by index_file calls, every catalog row of a text
\* file with a num_chunks has exactly that many rows tagged with its path in
\* the text index, next to one another, and every row of the text index is
\* tagged with a path that has a catalog row.
C7_CatalogMatchesTextIndex ==
    /\ \A f \in DOMAIN catalog :
          (catalog[f].is_text_type /\ catalog[f].num_chunks # None) =>
              /\ Cardinality(IndicesOf(sm.metadata, f)) = catalog[f].num_chunks
              /\ Contiguous(IndicesOf(sm.metadata, f))
    /\ \A i \in 1..Len(sm.metadata) : sm.metadata[i].file_path \in DOMAIN catalog


(***************************************************************************)
(* Properties of saving and loading the vector index.                      *)
(***************************************************************************)
\* both kinds of a manager have as many matrix rows as metadata records
EqualLengths(m) ==
    /\ Rows(m.embeddings) = Len(m.metadata)
    /\ Rows(m.image_embeddings) = Len(m.image_metadata)

\* C11: a SearchManager that a search request has loaded from the index files,
\* while the indexer may be in the middle of saving them, holds for each kind a
\* matrix and a metadata list of the same length.
C11_SearchSeesEqualLengths ==
    reader.pc = "loaded" => EqualLengths(reader.m)

\* a manager with an absent matrix in place of a matrix without rows
WithoutEmpty(m) ==
    [m EXCEPT !.embeddings = IF Rows(@) = 0 THEN NoneArray ELSE @,
              !.image_embeddings = IF Rows(@) = 0 THEN NoneArray ELSE @]

\* C12: after an add_file_embeddings or remove_file_embeddings that returned, a
\* SearchManager constructed from the index files holds the same matrices and
\* metadata lists as the manager that made the call (a matrix without rows
\* and an absent matrix taken for the same).
C12_FreshLoadEqualsMemory ==
    (call.op \in {"add", "remove"} /\ call.raised = "none") =>
        load_search_data(index_dir, {}) = WithoutEmpty(sm)

\* C13: when the process has stopped during a save, the SearchManager loaded
\* from the files it left holds for each kind a matrix and a metadata list of
\* the same length.
C13_RestartLoadsEqualLengths ==
    call.op = "restart" => EqualLengths(sm)

(***************************************************************************)
(* Properties of change detection and of the catalog.                      *)
(***************************************************************************)
\* the four reasons for which a file of the work tree counts as changed
NoRow(f) == f \notin DOMAIN catalog
SizeDiffers(f) == catalog[f].file_size # Len(files[f].text)
RowIsOlder(f) == fromisoformat(catalog[f].modified_time) < files[f].mtime
HashDiffers(f) == catalog[f].file_hash # compute_file_hash(files[f].text)

\* C14: has_changed returns changed exactly when the path has no catalog row, or
\* the row's size differs from the current size, or the row's modification time
\* is strictly before the current one, or the hash of the current bytes differs
\* from the row's hash; in every other case it returns unchanged.
C14_ChangedExactlyForFourReasons ==
    \A f \in DOMAIN files :
        has_changed(catalog, files, FileMetadata(files, f))
            <=> (NoRow(f) \/ SizeDiffers(f) \/ RowIsOlder(f) \/ HashDiffers(f))

\* a file that was indexed and was then given other bytes of the same length with
\* the same modification time: only the hash tells, and has_changed reports it
C14_Witness ==
    \E f \in DOMAIN files :
        /\ ~NoRow(f) /\ ~SizeDiffers(f) /\ ~RowIsOlder(f) /\ HashDiffers(f)
        /\ has_changed(catalog, files, FileMetadata(files, f))
        /\ \E g \in DOMAIN files :
              /\ ~NoRow(g) /\ ~SizeDiffers(g) /\ ~RowIsOlder(g) /\ ~HashDiffers(g)
              /\ ~has_changed(catalog, files, FileMetadata(files, g))

\* C15: once index_file(f) has succeeded, moving f's modification time forward
\* while its bytes stay the same leaves index_file(f) without force returning
\* indexed = false, and the pipeline is not run again.
C15_TouchedFileIsSkipped ==
    \A f \in DOMAIN files :
        (~NoRow(f) /\ ~SizeDiffers(f) /\ ~HashDiffers(f) /\ RowIsOlder(f))
            => index_file(RepoState, f, FALSE)
                   = [state |-> RepoState, result |-> Returned(f, FALSE, "unchanged")]

\* a step in which index_file returned indexed = true for the canonical path p
IndexedStep(p) == result'.indexed /\ result'.file_path = p

C17_BlobIsLastPipelineResult ==
    [][ \A p \in DOMAIN files :
            IndexedStep(p) =>
                /\ DOMAIN blobs' = DOMAIN blobs \cup {get_file_hash(p)}
                /\ blobs'[get_file_hash(p)].processed
                /\ blobs'[get_file_hash(p)].embeddings = embed_text(files[p].text).embeddings
                /\ Len(blobs'[get_file_hash(p)].embeddings.rows) = catalog'[p].num_chunks
                /\ \A k \in DOMAIN blobs \ {get_file_hash(p)} : blobs'[k] = blobs[k] ]_vars

\* a file indexed with one chunk, rewritten with two and indexed again, next to
\* the blob of another file
C17_Witness ==
    /\ result.indexed /\ result.file_path = A_TXT
    /\ DOMAIN blobs = {get_file_hash(A_TXT), get_file_hash(B_TXT)}
    /\ Len(blobs[get_file_hash(A_TXT)].embeddings.rows) = 2
    /\ catalog[A_TXT].num_chunks = 2
    /\ fromisoformat(catalog[A_TXT].indexed_time) >= 2

(***************************************************************************)
(* Properties of argument checking in the vector index.                    *)
(***************************************************************************)
\* the matrix of the kind an add of file_path selects
SelectedMatrix(m, file_path) ==
    IF SelectsImage(file_path, FALSE) THEN m.image_embeddings ELSE m.embeddings

\* the manager after the removal of file_path's old rows from the selected kind
AfterRemoval(m, file_path) ==
    remove_file_embeddings(m, index_dir, file_path,
                           IF SelectsImage(file_path, FALSE) THEN "True" ELSE "False")

\* C18: add_file_embeddings(f, C, V) with as many chunks as rows is rejected with
\* ValueError exactly when, after f's old rows have been removed, the selected
\* index is non-empty and V's width differs from the index width; when the index
\* is empty after that removal, V is adopted as the index whatever its width.
C18_RejectedExactlyOnWidthMismatch ==
    \A p \in CallerPaths, a \in AddArguments :
        (Len(a[1]) = Len(a[2].rows) /\ AfterRemoval(sm, Resolve(p)).raised = "none") =>
            LET E == SelectedMatrix(AfterRemoval(sm, Resolve(p)).sm, Resolve(p))
                V == Matrix(a[2].width, a[2].rows)
                r == add_file_embeddings(sm, index_dir, p, a[1], a[2], FALSE)
            IN  /\ r.raised = "ValueError" <=> (Rows(E) > 0 /\ V.width # E.width)
                /\ Rows(E) = 0 => SelectedMatrix(r.sm, Resolve(p)) = V

\* C19: search with top_k <= 0 fails with ValueError for every index state and
\* every query, before any row is scored (an index whose sweep would raise
\* included), and a search leaves the index and its files unchanged.
C19_NonPositiveTopKIsRejected ==
    [][ /\ \A q \in TextQueries, iq \in ImageQueries, k \in (0 - 1)..0 :
              search(sm, q, k, iq) = [raised |-> "ValueError", results |-> <<>>]
        /\ call'.op = "search" => (sm' = sm /\ index_dir' = index_dir) ]_vars

\* a search with top_k = 0 was refused on an index that holds rows
C19_Witness ==
    /\ call.op = "search" /\ call.raised = "ValueError"
    /\ Rows(sm.embeddings) > 0 /\ Consistent(sm.embeddings, sm.metadata)
    /\ search(sm, Ones(MaxWidth), 1, NoQuery).raised = "none"
    /\ Len(search(sm, Ones(MaxWidth), 1, NoQuery).results) = 1

\* a kind that a query cannot score: the index is empty, its width is not the
\* query's dimension, or the query is zero or absent
Unscorable(E, q) ==
    Rows(E) = 0 \/ q = NoQuery \/ E.width # Len(q) \/ Norm2(q) = 0

WithoutText(m) == [m EXCEPT !.embeddings = NoneArray, !.metadata = <<>>]
WithoutImages(m) == [m EXCEPT !.image_embeddings = NoneArray, !.image_metadata = <<>>]

\* C20: search never fails because of a query's dimension or norm.  A kind whose
\* index is empty, whose width differs from the query's dimension, or whose query
\* is zero or absent contributes nothing: the search returns what it returns on
\* the other kind alone, and nothing, without an error, when neither kind can be
\* scored.
C20_UnscorableKindContributesNothing ==
    \A q \in TextQueries, iq \in ImageQueries, k \in 1..MaxTopK :
        /\ Unscorable(sm.embeddings, q)
              => search(sm, q, k, iq) = search(WithoutText(sm), q, k, iq)
        /\ Unscorable(sm.image_embeddings, iq)
              => search(sm, q, k, iq) = search(WithoutImages(sm), q, k, iq)
        /\ (Unscorable(sm.embeddings, q) /\ Unscorable(sm.image_embeddings, iq))
              => search(sm, q, k, iq) = [raised |-> "none", results |-> <<>>]

\* a search returned the one image row of an index whose text rows have another
\* width than the text queries that reach the image rows
C20_Witness ==
    /\ call.op = "search" /\ call.raised = "none" /\ call.n = 1
    /\ Rows(sm.embeddings) > 0 /\ Rows(sm.image_embeddings) = 1
    /\ \E q \in TextQueries, iq \in ImageQueries :
          /\ Unscorable(sm.embeddings, q) /\ Norm2(q) > 0
          /\ ~Unscorable(sm.image_embeddings, iq)
          /\ search(sm, q, MaxTopK, iq).raised = "none"
          /\ Len(search(sm, q, MaxTopK, iq).results) = 1
          /\ search(sm, q, MaxTopK, iq).results[1].kind = "image"

(***************************************************************************)
(* Properties of the task table.                                           *)
(***************************************************************************)
\* C21: a submission rejected with 409 leaves the task table (and the closures
\* handed to the executor) unchanged, and its response carries the status,
\* indexed and total of the existing task record as they are at that moment.
C21_ConflictEchoesTheRecord ==
    [][ response'.code = 409 =>
            /\ response'.task_id \in DOMAIN indexing_tasks
            /\ indexing_tasks' = indexing_tasks
            /\ jobs' = jobs
            /\ response'.status = indexing_tasks[response'.task_id].status
            /\ response'.indexed = indexing_tasks[response'.task_id].indexed
            /\ response'.total = indexing_tasks[response'.task_id].total ]_vars

\* a submission was rejected after the running job had written its counters
C21_Witness ==
    /\ response.code = 409
    /\ response.status = "indexing"
    /\ response.indexed = 1 /\ response.total = 1
    /\ indexing_tasks[response.task_id].indexed = 1

\* the moves of a record's status that a worker makes
WorkerMoves == {<<"starting", "indexing">>, <<"indexing", "completed">>,
                <<"indexing", "error">>}

\* the step answered a request with 200: a DELETE that cleared id, or a POST that
\* was admitted under id
Cleared(id) == response'.request = Delete(id) /\ response'.code = 200
Admitted(id) ==
    /\ response'.code = 200 /\ response'.task_id = id
    /\ response'.request # Delete(id)

\* C22: a task record's status only moves starting -> indexing -> completed or
\* error.  Once it is completed or error no worker step changes the record: it
\* changes only by being cleared or by being replaced by the record of a newly
\* admitted submission.  A record that is starting or indexing stays in the table.
C22_StatusOnlyMovesForward ==
    [][ \A id \in DOMAIN indexing_tasks :
            /\ indexing_tasks[id].status \in ActiveStatus =>
                  /\ id \in DOMAIN indexing_tasks'
                  /\ \/ indexing_tasks'[id].status = indexing_tasks[id].status
                     \/ <<indexing_tasks[id].status, indexing_tasks'[id].status>>
                            \in WorkerMoves
            /\ indexing_tasks[id].status \in TerminalStatus =>
                  \/ id \in DOMAIN indexing_tasks' /\ indexing_tasks'[id] = indexing_tasks[id]
                  \/ id \notin DOMAIN indexing_tasks' /\ Cleared(id)
                  \/ /\ id \in DOMAIN indexing_tasks'
                     /\ indexing_tasks'[id] = NewTask
                     /\ Admitted(id) ]_vars

\* a record that had reached a terminal status was cleared, next to a record that
\* ended in error
C22_Witness ==
    /\ response.code = 200
    /\ response.request = Delete(response.task_id)
    /\ response.task_id \notin DOMAIN indexing_tasks
    /\ \E b \in DOMAIN indexing_tasks : indexing_tasks[b].status = "error"

\* C23: clearing progress removes the task record only when its status is
\* completed or error (answer 200); for a record that is starting or indexing the
\* request is refused (400) and the table is unchanged; for a repository with no
\* record it answers 404 and the table is unchanged.
C23_ClearOnlyTerminalRecords ==
    [][ \A id \in RepoIds :
            response'.request = Delete(id) =>
                /\ (id \in DOMAIN indexing_tasks
                    /\ indexing_tasks[id].status \in TerminalStatus) =>
                       /\ response'.code = 200
                       /\ DOMAIN indexing_tasks' = DOMAIN indexing_tasks \ {id}
                       /\ \A x \in DOMAIN indexing_tasks' :
                              indexing_tasks'[x] = indexing_tasks[x]
                /\ (id \in DOMAIN indexing_tasks
                    /\ indexing_tasks[id].status \in ActiveStatus) =>
                       /\ response'.code = 400
                       /\ indexing_tasks' = indexing_tasks
                /\ id \notin DOMAIN indexing_tasks =>
                       /\ response'.code = 404
                       /\ indexing_tasks' = indexing_tasks ]_vars

\* a clear was refused for a record that is being indexed, next to a record that
\* has reached a terminal status
C23_Witness ==
    /\ response.code = 400
    /\ response.request = Delete(response.task_id)
    /\ indexing_tasks[response.task_id].status = "indexing"
    /\ \E id \in DOMAIN indexing_tasks : indexing_tasks[id].status \in TerminalStatus

\* a closure of repository id is in its except clause
Excepting(id) == \E i \in 1..Len(jobs) : jobs[i].repo_id = id /\ jobs[i].pc = "except"

HasStatus(id, S) == id \in DOMAIN indexing_tasks /\ indexing_tasks[id].status \in S

\* C24: with a pool that keeps scheduling its closures and indexing runs that
\* return or raise, every admitted job eventually reaches status completed or
\* error, and an exception raised inside the worker ends the job in error.
C24_EveryJobEnds ==
    \A id \in RepoIds :
        /\ HasStatus(id, ActiveStatus) ~> HasStatus(id, TerminalStatus)
        /\ Excepting(id) ~> HasStatus(id, {"error"})

\* one job has ended in error through its except clause and another has completed
C24_Witness ==
    /\ jobs = <<>>
    /\ \E a, b \in DOMAIN indexing_tasks :
          /\ indexing_tasks[a].status = "error" /\ indexing_tasks[a].error = "exception"
          /\ indexing_tasks[b].status = "completed" /\ indexing_tasks[b].indexed = 1

(***************************************************************************)
(* Properties of routing and of files no handler embeds.                   *)
(***************************************************************************)
\* C27: for every existing file, process_file returns the result of the first
\* handler, in the order text, image, default, that accepts it: .txt and .docx go
\* to the text handler, .png, .jpg and .jpeg to the image handler, every other
\* file to the default handler with processed = false; routing never fails.
C27_FirstAcceptingHandler ==
    \A f \in DOMAIN files :
        IF Suffix(f) \in TEXT_EXTENSIONS
        THEN /\ process_file(files, f).raised = embed_text(files[f].text).raised
             /\ process_file(files, f).chunks = embed_text(files[f].text).chunks
             /\ process_file(files, f).embeddings = embed_text(files[f].text).embeddings
        ELSE IF Suffix(f) \in IMAGE_EXTENSIONS
        THEN process_file(files, f) = image_process(files, FileMetadata(files, f))
        ELSE /\ process_file(files, f) = default_process(FileMetadata(files, f))
             /\ ~process_file(files, f).processed

\* C28: index_file on an existing file that neither the text nor the image handler
\* accepts returns indexed = true with processed = false, writes a catalog row
\* with no chunk count and no embedding dimension, and writes no blob and no
\* vector rows.
C28_UnsupportedFileGetsRowOnly ==
    \A f \in DOMAIN files :
        Suffix(f) \notin TEXT_EXTENSIONS \cup IMAGE_EXTENSIONS =>
            LET r == index_file(RepoState, f, TRUE) IN
            /\ r.result = Unprocessed(f)
            /\ f \in DOMAIN r.state.catalog
            /\ r.state.catalog[f].num_chunks = None
            /\ r.state.catalog[f].embedding_dimension = None
            /\ r.state.blobs = blobs
            /\ r.state.sm = sm
            /\ r.state.dir = index_dir

(***************************************************************************)
(* Properties of directory walks.                                          *)
(***************************************************************************)
\* the directory a walk was given, once resolved
WalkedDirectory(d) == Resolve(IF d = NoDirectory THEN WORK_TREE_ROOT ELSE d)

\* what a walk enumerates: the files below the directory (directly in it for a
\* shallow walk) that are not under .filex and pass the extension filter
Enumerated(fs, st) ==
    {f \in DOMAIN fs :
        /\ IF st.recursive
           THEN Len(f) > Len(st.directory)
                /\ SubSeq(f, 1, Len(st.directory)) = st.directory
           ELSE Parent(f) = st.directory
        /\ \A i \in 1..Len(f) : f[i] # REPO_DIR_NAME
        /\ \/ st.extensions = NoExtensions
           \/ \E e \in st.extensions : Lower(e) = Suffix(f)}

\* the place of a path in the order of str(path)
StrRank(f) == CHOOSE i \in 1..Len(STR_ORDER) : STR_ORDER[i] = f

\* C25: index_directory attempts every enumerated file exactly once, in sorted
\* order, continuing after any per-file exception, and on return total_files =
\* indexed + skipped + errors and the number of error messages equals errors.
C25_WalkAttemptsEveryFileOnce ==
    [][ (stats'.op = "walk" /\ stats'.raised = "none") =>
            /\ {stats'.attempted[i] : i \in 1..Len(stats'.attempted)}
                   = Enumerated(files, stats')
            /\ \A i, j \in 1..Len(stats'.attempted) :
                   i < j => StrRank(stats'.attempted[i]) < StrRank(stats'.attempted[j])
            /\ stats'.total_files = Len(stats'.attempted)
            /\ stats'.total_files = stats'.indexed + stats'.skipped + stats'.errors
            /\ Len(stats'.error_messages) = stats'.errors ]_vars

\* a walk whose first file raised went on to index one file and to skip another
C25_Witness ==
    /\ stats.op = "walk" /\ stats.raised = "none"
    /\ stats.errors >= 1 /\ stats.indexed >= 1 /\ stats.skipped >= 1
    /\ stats.error_messages[1][1] = stats.attempted[1]
    /\ Len(stats.attempted) >= 3

\* a path with a component named .filex
InRepoDir(f) == \E i \in 1..Len(f) : f[i] = REPO_DIR_NAME

\* C26: index_directory never passes to index_file a path that has a component
\* named .filex, for recursive and shallow walks alike, so no file of the
\* repository directory gets a catalog row, a blob or vector rows.
C26_WalkSkipsRepositoryDirectory ==
    /\ [][ stats'.op = "walk" =>
               \A i \in 1..Len(stats'.attempted) : ~InRepoDir(stats'.attempted[i]) ]_vars
    /\ [](\A f \in DOMAIN files :
              InRepoDir(f) =>
                  /\ f \notin DOMAIN catalog
                  /\ get_file_hash(f) \notin DOMAIN blobs
                  /\ \A i \in 1..Len(sm.metadata) : sm.metadata[i].file_path # f
                  /\ \A i \in 1..Len(sm.image_metadata) : sm.image_metadata[i].file_path # f)

\* walks over w and over w/.filex itself, recursive or shallow with every
\* extension allowed, indexed files and left the file under .filex alone
C26_Witness ==
    /\ stats.op = "walk" /\ stats.raised = "none"
    /\ stats.extensions = NoExtensions
    /\ stats.directory \in {<<"w">>, <<"w", ".filex">>}
    /\ NOTES_TXT \in DOMAIN files
    /\ (stats.directory = <<"w">> => stats.indexed >= 1)
    /\ catalog # <<>>

(***************************************************************************)
(* Properties of locating and creating the repository.                     *)
(***************************************************************************)
\* the start paths tried: directories, a file, spellings with "." and "..", a
\* directory below .filex, the root, and a directory that holds a file named .filex
LocatePaths ==
    {<<>>, <<"w">>, <<"w", "sub">>, <<"w", "sub", "deep">>, <<"w", "a.txt">>,
     <<"w", "sub", "..">>, <<"w", ".", "sub", "deep">>, <<"w", ".filex", "index">>,
     <<"v">>, <<"v", "x">>, <<"x">>}

\* the start path and its ancestors, and those that contain a directory .filex
Ancestors(p) == {SubSeq(p, 1, k) : k \in 0..Len(p)}
Holders(filex, p) == {d \in Ancestors(p) : Append(d, REPO_DIR_NAME) \in filex}
Nearest(filex, p) ==
    CHOOSE d \in Holders(filex, p) : \A e \in Holders(filex, p) : Len(e) <= Len(d)

\* C29: find_repository terminates for every start path and returns the .filex
\* directory of the nearest directory, among the start path and its ancestors,
\* that contains a directory named .filex; it returns None exactly when none does.
C29_FindsNearestRepository ==
    \A p \in LocatePaths :
        find_repository(has_filex, Resolve(p))
            = IF Holders(has_filex, Resolve(p)) = {} THEN NoRepo
              ELSE Append(Nearest(has_filex, Resolve(p)), REPO_DIR_NAME)

\* two nested repositories exist: a path below the inner one finds the inner one,
\* the outer directory finds its own, and a directory that holds a file named
\* .filex finds none
C29_Witness ==
    /\ {<<"w", ".filex">>, <<"w", "sub", ".filex">>} \subseteq has_filex
    /\ find_repository(has_filex, <<"w", "sub", "deep">>) = <<"w", "sub", ".filex">>
    /\ find_repository(has_filex, <<"w">>) = <<"w", ".filex">>
    /\ find_repository(has_filex, <<"v">>) = NoRepo

\* the start paths a repository is created from
CreatePaths == {<<"w">>, <<"w", "sub">>, <<"w", "sub", "..">>, <<"w", "sub", "deep">>}

\* no entry named .filex at the path or at any of its ancestors
NoRepoDirAbove(filex, p) ==
    \A d \in Ancestors(p) : ~Exists(filex, Append(d, REPO_DIR_NAME))

\* what Repository(start) creates: .filex and its three subdirectories
Created(start) ==
    {Append(start, REPO_DIR_NAME)}
        \cup {Append(start, REPO_DIR_NAME) \o <<n>> :
                  n \in {"index", "embeddings", "metadata"}}

IsDescendant(d, s) == Len(d) > Len(s) /\ SubSeq(d, 1, Len(s)) = s

\* the directories from below s down to d, d included
Between(s, d) == {e \in Ancestors(d) : Len(e) > Len(s)}

\* Repository(start) on filex creates start/.filex with its subdirectories, and
\* constructing it again from each path of again finds it and changes nothing
CreatesOnce(filex, start, again) ==
    LET made == Repository(filex, start) IN
    /\ made.repo_path = Append(Resolve(start), REPO_DIR_NAME)
    /\ made.filex = filex \cup Created(Resolve(start))
    /\ \A d \in again : Repository(made.filex, d) = made

\* C30 as stated: Repository(start, create=true) with no .filex at start or at any
\* ancestor creates start/.filex with its index, embeddings and metadata
\* subdirectories; constructing it again from start, or from any descendant that
\* has no .filex of its own, resolves to that same .filex and changes nothing.
C30_AnyDescendantFindsIt ==
    \A start \in CreatePaths :
        NoRepoDirAbove(has_filex, Resolve(start)) =>
            CreatesOnce(has_filex, start,
                        {d \in LocatePaths :
                            \/ Resolve(d) = Resolve(start)
                            \/ /\ IsDescendant(Resolve(d), Resolve(start))
                               /\ ~Exists(has_filex, Append(Resolve(d), REPO_DIR_NAME))})

\* C30, amended: the same for start and for every descendant with no .filex of its
\* own and none in a directory between start and it.
C30_DescendantBelowNoOtherRepository ==
    \A start \in CreatePaths :
        NoRepoDirAbove(has_filex, Resolve(start)) =>
            CreatesOnce(has_filex, start,
                        {d \in LocatePaths :
                            \/ Resolve(d) = Resolve(start)
                            \/ /\ IsDescendant(Resolve(d), Resolve(start))
                               /\ \A e \in Between(Resolve(start), Resolve(d)) :
                                      ~Exists(has_filex, Append(e, REPO_DIR_NAME))})

\* with the repository of w/sub in place, one is created at w: w and w/.filex/index
\* find it again, w/sub/deep finds the one of w/sub
C30_Witness ==
    /\ <<"w", "sub", ".filex">> \in has_filex
    /\ NoRepoDirAbove(has_filex, <<"w">>)
    /\ Repository(has_filex, <<"w">>).filex = has_filex \cup Created(<<"w">>)
    /\ Repository(Repository(has_filex, <<"w">>).filex, <<"w", ".filex", "index">>)
           = Repository(has_filex, <<"w">>)
    /\ Repository(Repository(has_filex, <<"w">>).filex, <<"w", "sub", "deep">>).repo_path
           = <<"w", "sub", ".filex">>


(***************************************************************************)
(* Path containment.  str(path) is modelled as the sequence of the path's  *)
(* separators and name pieces, so that one name being the beginning of     *)
(* another ("w" of "w2", "sub" of "sub2") shows in the string.             *)
(***************************************************************************)
\* the pieces of a component's name
NameChars(c) ==
    CASE c = "w2" -> <<"w", "2">>
      [] c = "sub2" -> <<"sub", "2">>
      [] OTHER -> <<c>>

\* str(path) of an absolute path
RECURSIVE Str(_)
Str(p) ==
    IF p = <<>> THEN <<"/">>
    ELSE (IF Len(p) = 1 THEN <<>> ELSE Str(Parent(p)))
             \o <<"/">> \o NameChars(p[Len(p)])

\* s.startswith(t)
StartsWith(s, t) == Len(t) <= Len(s) /\ SubSeq(s, 1, Len(t)) = t

\* Repository.get_work_tree_root()
get_work_tree_root(repo_path) == Parent(repo_path)

\* Repository.is_path_in_repo(file_path) of the repository at repo_path
is_path_in_repo(repo_path, file_path) ==
    StartsWith(Str(Resolve(file_path)), Str(get_work_tree_root(repo_path)))

\* the paths asked about: inside, the root itself, outside, spellings with "..",
\* and siblings whose name begins with the work tree's name
ContainPaths ==
    {<<>>, <<"w">>, <<"w", "a.txt">>, <<"w", "sub">>, <<"w", "sub", "deep">>,
     <<"w", "sub", "..", "a.txt">>, <<"w", "..", "v">>, <<"v">>, <<"v", "x">>,
     <<"w2">>, <<"w2", "a.txt">>, <<"w", "sub2">>, <<"w", "sub2", "c.txt">>}

\* the .filex directories that exist
RepoDirs == {d \in has_filex : d[Len(d)] = REPO_DIR_NAME}

\* C31: is_path_in_repo(p) is true exactly when the canonical form of p is the
\* work tree root or lies inside the working tree, and false for every path
\* outside the working tree.
C31_InRepoExactlyInsideWorkTree ==
    \A rp \in RepoDirs : \A p \in ContainPaths :
        is_path_in_repo(rp, p) <=> Parent(rp) \in Ancestors(Resolve(p))


(***************************************************************************)
(* Properties of the chunkers.                                             *)
(***************************************************************************)
\* the text lengths an estimate is asked for
EstimateLengths == 0..(3 * MaxTextLen)

\* C32: for both chunkers and every non-empty text, chunk returns a non-empty list
\* whose elements are all non-empty strings, and get_chunk_count_estimate(n) >= 1
\* for every n >= 0.
C32_ChunksOfNonEmptyText ==
    /\ (chunked.chunker # "none" /\ input_text # <<>>) =>
           /\ chunked.chunks # <<>>
           /\ \A k \in 1..Len(chunked.chunks) : chunked.chunks[k] # <<>>
    /\ chunked.chunker = "fixed" =>
           \A n \in EstimateLengths :
               FixedSizeChunker_estimate(chunked.size, chunked.overlap, n) >= 1
    /\ chunked.chunker = "sentence" =>
           \A n \in EstimateLengths :
               SentenceAwareChunker_estimate(chunked.size, n) >= 1

\* a text of spaces only went through the fixed-size chunker and came back whole
C32_Witness ==
    /\ input_text = <<" ", " ">>
    /\ chunked.chunker = "fixed"
    /\ chunked.chunks = <<input_text>>


\* the consecutive windows of chunk_size characters that tile the text
WindowsOf(t, chunk_size) ==
    [k \in 1..((Len(t) + chunk_size - 1) \div chunk_size) |->
        SubSeq(t, (k - 1) * chunk_size + 1,
               IF k * chunk_size < Len(t) THEN k * chunk_size ELSE Len(t))]

\* some character of the string is not whitespace
NotBlank(s) == \E i \in 1..Len(s) : s[i] # " "

RECURSIVE Concat(_)
Concat(ss) == IF ss = <<>> THEN <<>> ELSE Head(ss) \o Concat(Tail(ss))

\* C33: for the fixed-size chunker with overlap=0 and every non-empty text that is
\* not whitespace-only, the kept chunks are disjoint consecutive windows of at most
\* chunk_size characters, and concatenating them in order gives the original text
\* with exactly the whitespace-only windows removed.
C33_ChunksTileTheText ==
    (/\ chunked.chunker = "fixed"
     /\ chunked.overlap = 0
     /\ NotBlank(input_text)) =>
        /\ chunked.chunks = SelectSeq(WindowsOf(input_text, chunked.size), NotBlank)
        /\ \A k \in 1..Len(chunked.chunks) : Len(chunked.chunks[k]) <= chunked.size
        /\ Concat(chunked.chunks)
               = Concat(SelectSeq(WindowsOf(input_text, chunked.size), NotBlank))
        /\ Concat(WindowsOf(input_text, chunked.size)) = input_text

\* a text with a blank window in the middle lost that window and nothing else
C33_Witness ==
    /\ input_text = <<"a", " ", "a", "a">>
    /\ chunked.chunker = "fixed"
    /\ chunked.size = 1
    /\ chunked.overlap = 0
    /\ Concat(chunked.chunks) = <<"a", "a", "a">>


\* C39: for the sentence-aware chunker with any valid (target, max), max = target
\* included, a sentence is never added to a non-empty chunk when that would pass
\* the bound: every emitted chunk made of two or more sentences has joined length
\* at most max_chunk_size, so a chunk longer than max is not made of several
\* sentences.
C39_SeveralSentencesStayWithinMax ==
    chunked.chunker = "sentence" =>
        \A k \in 1..Len(chunked.groups) :
            /\ Len(chunked.groups[k]) >= 1
            /\ Len(chunked.groups[k]) >= 2 => Len(chunked.chunks[k]) <= chunked.max
            /\ Len(chunked.chunks[k]) > chunked.max => Len(chunked.groups[k]) = 1



(***************************************************************************)
(* What has_changed reads.                                                 *)
(***************************************************************************)
\* IndexManager.has_changed reaches compute_file_hash, which opens the file and
\* reads all of it: none of the three returns before it was taken
has_changed_reads_file(cat, metadata) ==
    IF metadata.file_path \notin DOMAIN cat THEN FALSE
    ELSE IF cat[metadata.file_path].file_size # metadata.file_size_bytes THEN FALSE
    ELSE IF fromisoformat(cat[metadata.file_path].modified_time) < metadata.modified_time
         THEN FALSE
    ELSE TRUE

\* C40: has_changed does not read the file's contents (computes no hash) for a
\* stable file, that is a file whose catalog row has the same size and an mtime
\* not earlier than the file's current mtime.
C40_StableFileIsNotRead ==
    \A f \in DOMAIN files :
        (~NoRow(f) /\ ~SizeDiffers(f) /\ ~RowIsOlder(f))
            => ~has_changed_reads_file(catalog, FileMetadata(files, f))


(***************************************************************************)
(* Properties of the order of index_file's writes.                         *)
(***************************************************************************)
\* the catalog row of p was written in this step
RowCommitted(p) ==
    /\ p \in DOMAIN catalog'
    /\ p \notin DOMAIN catalog \/ catalog'[p] # catalog[p]

\* C34: within index_file, the catalog row for a file is committed only after the
\* blob write and the vector-index update for that file have been performed, so
\* no catalog row exists for a run whose blob or vector write has not happened.
C34_RowOnlyAfterBlobAndVectors ==
    [][ \A p \in DOMAIN files :
            (RowCommitted(p) /\ catalog'[p].num_chunks # None) =>
                /\ get_file_hash(p) \in DOMAIN blobs'
                /\ blobs'[get_file_hash(p)].embeddings_info.num_chunks
                       = catalog'[p].num_chunks
                /\ Cardinality(IndicesOf(sm'.metadata, p)) = catalog'[p].num_chunks
                /\ \A i \in IndicesOf(sm'.metadata, p) :
                       sm'.metadata[i].chunk_text \in
                           {chunk(files[p].text)[k] :
                               k \in 1..Len(chunk(files[p].text))} ]_vars


(***************************************************************************)
(* Properties of a failed add_file_embeddings.                             *)
(***************************************************************************)
\* the two rejections of add_file_embeddings(p, chunks, embeddings) on manager m
CountMismatch(chunks, embeddings) ==
    Len(chunks) # (IF embeddings.ndim = 1 THEN 1 ELSE Len(embeddings.rows))
DimensionMismatch(m, p, embeddings) ==
    /\ ~SelectedMatrix(m, Resolve(p)).none
    /\ SelectedMatrix(m, Resolve(p)).width # embeddings.width

\* C37: an add_file_embeddings call that fails (chunk/row count mismatch or
\* embedding dimension mismatch) leaves the in-memory (E, M) of both kinds and the
\* persisted index files exactly as they were before the call; in particular the
\* rows previously held for that file are still present.
C37_FailedAddChangesNothing ==
    \A p \in CallerPaths, a \in AddArguments :
        (/\ add_file_embeddings(sm, index_dir, p, a[1], a[2], FALSE).raised # "none"
         /\ CountMismatch(a[1], a[2]) \/ DimensionMismatch(sm, p, a[2])) =>
            /\ add_file_embeddings(sm, index_dir, p, a[1], a[2], FALSE).sm = sm
            /\ add_file_embeddings(sm, index_dir, p, a[1], a[2], FALSE).dir = index_dir


(***************************************************************************)
(* Properties of the counters of a task record.                            *)
(***************************************************************************)
\* the record of id becomes completed in this step
Completes(id) ==
    /\ id \in DOMAIN indexing_tasks /\ id \in DOMAIN indexing_tasks'
    /\ indexing_tasks[id].status # "completed"
    /\ indexing_tasks'[id].status = "completed"

\* C38: in every reachable task record 0 <= indexed <= total and errors <= total,
\* and when a job reaches completed its indexed, total and errors equal the counts
\* returned by the indexing run it performed (1/1 or 0/1 for a single-file job).
C38_CountersAreTheRunsCounts ==
    [][ /\ \A id \in DOMAIN indexing_tasks' :
              /\ 0 <= indexing_tasks'[id].indexed
              /\ indexing_tasks'[id].indexed <= indexing_tasks'[id].total
              /\ 0 <= indexing_tasks'[id].errors
              /\ indexing_tasks'[id].errors <= indexing_tasks'[id].total
        /\ \A id \in DOMAIN indexing_tasks :
              Completes(id) =>
                  \E i \in 1..Len(jobs) :
                      /\ jobs[i].repo_id = id
                      /\ jobs[i].pc = "recorded"
                      /\ indexing_tasks'[id].indexed = jobs[i].indexed
                      /\ indexing_tasks'[id].total = jobs[i].total
                      /\ indexing_tasks'[id].errors = jobs[i].errors
                      /\ jobs[i].target = "file" =>
                             /\ indexing_tasks'[id].total = 1
                             /\ indexing_tasks'[id].indexed \in {0, 1} ]_vars

\* a directory job completed with its one file in error, next to a job that
\* completed with its file indexed
C38_Witness ==
    \E id \in DOMAIN indexing_tasks, other \in DOMAIN indexing_tasks :
        /\ indexing_tasks[id].status = "completed"
        /\ indexing_tasks[id].total = 1
        /\ indexing_tasks[id].indexed = 0
        /\ indexing_tasks[id].errors = 1
        /\ indexing_tasks[other].status = "completed"
        /\ indexing_tasks[other].total = 1
        /\ indexing_tasks[other].indexed = 1
        /\ indexing_tasks[other].errors = 0


(***************************************************************************)
(* Properties of an index_file that raises.                                *)
(***************************************************************************)
\* C36: if index_file(f) raises, the catalog, the blob store and the vector index
\* are as they were before the call, so a later index_file(f) without force
\* re-runs the pipeline instead of reporting the file unchanged.
C36_RaisingRunLeavesNoTrace ==
    [][ (result'.raised # "none") =>
            /\ catalog' = catalog
            /\ blobs' = blobs
            /\ sm' = sm
            /\ index_dir' = index_dir
            /\ result'.file_path \in DOMAIN files' =>
                   (~has_changed(catalog', files', FileMetadata(files', result'.file_path))
                       => ~has_changed(catalog, files, FileMetadata(files, result'.file_path)))
      ]_vars


(***************************************************************************)
(* Properties of jobs that follow one another on a repository.             *)
(***************************************************************************)
\* the rows the index files hold for a file
PersistedRows(file_path) ==
    IF index_dir.search_metadata.exists
    THEN IndicesOf(index_dir.search_metadata.data, file_path)
    ELSE {}

\* C35: when two indexing jobs for the same repository are admitted one after the
\* other (the second request arriving while the first job is still running and
\* being admitted once the first has finished) and both complete, the persisted
\* vector index contains the rows of every file indexed by either job: the second
\* job never overwrites rows written by the first with an index snapshot it
\* loaded before the first finished.
C35_LaterJobKeepsEarlierRows ==
    \A k \in HandoffRequests :
        requests[k].pc = "done" =>
            /\ PersistedRows(RequestFile(k)) # {}
            /\ ~index_dir.search_index.none
            /\ Len(index_dir.search_index.rows) = Len(index_dir.search_metadata.data)

=============================================================================
